---- MODULE Spec2Model ----
(***************************************************************************)
(* State-machine model of the traffic monitoring web application           *)
(* (src/app.py): the lane-scoped vehicle tracker, the signal controller    *)
(* and the multi-intersection network simulation, with the stand-alone     *)
(* controller variant of src/intersection_final.py.                        *)
(*                                                                         *)
(* Time.  time.time() is the variable clock, counted in clock units of     *)
(* 1/TicksPerSec seconds, the coarsest resolution in which every timeout   *)
(* of the program is a whole number (EMPTY_TIMEOUT = 1.5 s).               *)
(*                                                                         *)
(* Python values.  None is the empty sequence where the other values are   *)
(* numbers (pending_lane_index) and the string "None" where they are       *)
(* strings.  A dict is a function; where the code depends on the dict's    *)
(* iteration order the order is kept in a sequence (lane_order, the        *)
(* intersections file, a request body).                                    *)
(***************************************************************************)
EXTENDS Integers, Sequences, FiniteSets, TLC

VARIABLES
    program,               \* which of the two programs runs: "app" or "intersection_final"
    clock,                 \* time.time()
    raw_lanes,             \* the lanes file: sequence of [id, polygon]
    lanes,                 \* lane id -> [occupied, last_seen, signal, count]
    vehicle_memory,        \* vehicle id -> [pos, time, lane, direction, predicted_next_lane]
    vehicle_id_counter,
    light_state,
    current_lane_index,    \* 0-based, as in the source
    pending_lane_index,    \* <<>> (None) or <<index>>
    last_switch_time,
    intersections,         \* the intersections file: sequence of [id, lanes, outgoing]
    simulation_counts,     \* intersection id -> (lane id -> count)
    last_simulation_tick,
    mongo_db,              \* TRUE when the MongoDB connection was established
    last_mongo_log,
    ser,                   \* src/intersection_final.py: the serial port is open
    mongo_sink,            \* the document last handed to insert_one on "lanes", <<>> before
    lock,                  \* the Lock of src/app.py: "free" or the name of its holder
    step_now,              \* now of the pass of generate_frames that holds the lock
    visited,               \* history: per tracked vehicle, the last three lanes it held
                           \* at the end of a pass, oldest first
    committed,             \* history: the lane table as the last completed pass left it
    body,                  \* history: the JSON list the last read answered with, or
                           \* the writes to the sink or the serial port that a pass tried
    op,                    \* history: the entry point that ran last
    req,                   \* history: the input of the last operation (override body, counts, detections)
    resp                   \* history: the HTTP status it answered with (0: none)

vars == <<program, clock, raw_lanes, lanes, vehicle_memory, visited, vehicle_id_counter,
          light_state, current_lane_index, pending_lane_index, last_switch_time,
          intersections, simulation_counts, last_simulation_tick,
          mongo_db, ser, last_mongo_log, mongo_sink, lock, step_now, committed, body,
          op, req, resp>>

ctlVars == <<light_state, current_lane_index, pending_lane_index, last_switch_time>>
simVars == <<simulation_counts, last_simulation_tick>>
cfgVars == <<program, raw_lanes, intersections, mongo_db, ser>>
lockVars == <<lock, step_now>>

-----------------------------------------------------------------------------
(* Bounds of the model                                                     *)

Epoch == 20          \* time.time() when last_switch_time is set (line 137)
CtlLoadDelay == 9    \* clock units from there to the end of the module load
CtlHorizon == 14     \* clock units explored by the controller specification
SimHorizon == 4      \* clock units explored by the simulation specification
MaxLag == 1          \* clock units a processing step may take (inference)
MaxIds == 12         \* cap on vehicle_id_counter
PurgeHorizon == 12   \* clock units the purge specification runs for
LaneHorizon == 1     \* clock units the lane assignment specification runs for
MaxHistory == 5      \* cap on the length of a vehicle's lane_history
LiveHorizon == 18    \* clock units the passes on a steady frame run for
HandoffRange == 12   \* largest source count the handoff formula is checked for

-----------------------------------------------------------------------------
(* Program constants (src/app.py:25-72)                                    *)

TicksPerSec == 2
GREEN_TIME == 5 * TicksPerSec
YELLOW_TIME == 2 * TicksPerSec
EMPTY_TIMEOUT == (15 * TicksPerSec) \div 10
COUNT_SWITCH_DELTA == 2
STALE_TIMEOUT == 5 * TicksPerSec
MONGO_LOG_INTERVAL == 2 * TicksPerSec
MATCH_GATE == 50
DIRECTION_THRESHOLD == 8

SIM_TICK_SECONDS == 1 * TicksPerSec
\* SIM_HANDOFF_RATIO = 0.5 as the fraction SIM_HANDOFF_NUM / SIM_HANDOFF_DEN
SIM_HANDOFF_NUM == 1
SIM_HANDOFF_DEN == 2
SIM_MIN_HANDOFF == 1
SIM_MIRROR_INTERSECTION == "intersection_1"

VEHICLE_CLASSES == {"car", "truck", "bus", "motorcycle", "bicycle"}

LANE_DIRECTIONS ==
    [l \in {"lane_1", "lane_2", "lane_3", "lane_4", "lane_6", "lane_7", "lane_8", "lane_9"} |->
        CASE l \in {"lane_1", "lane_9"} -> "UP"
          [] l \in {"lane_2", "lane_8"} -> "DOWN"
          [] l \in {"lane_3", "lane_7"} -> "RIGHT"
          [] OTHER -> "LEFT"]

LANE_ROUTES ==
    [l \in {"lane_1", "lane_3", "lane_5", "lane_6"} |->
        CASE l = "lane_1" -> "lane_2"
          [] l = "lane_3" -> "lane_4"
          [] l = "lane_5" -> "lane_7"
          [] OTHER -> "None"]

PAIRED_LANES ==
    [l \in {"lane_1", "lane_2", "lane_3", "lane_4", "lane_6", "lane_7"} |->
        CASE l = "lane_1" -> "lane_2"
          [] l = "lane_2" -> "lane_1"
          [] l = "lane_3" -> "lane_4"
          [] l = "lane_4" -> "lane_3"
          [] l = "lane_6" -> "lane_7"
          [] OTHER -> "lane_6"]

\* dict.get(key) with None as the default
DictGet(d, k) == IF k \in DOMAIN d THEN d[k] ELSE "None"

Max(a, b) == IF a >= b THEN a ELSE b
Min(a, b) == IF a <= b THEN a ELSE b
Abs(a) == IF a < 0 THEN -a ELSE a

-----------------------------------------------------------------------------
(* Lane geometry: cv2.pointPolygonTest(polygon, (cx, cy), False) >= 0      *)

Cross(a, b, p) == (b[1] - a[1]) * (p[2] - a[2]) - (b[2] - a[2]) * (p[1] - a[1])

OnSegment(a, b, p) ==
    /\ Cross(a, b, p) = 0
    /\ Min(a[1], b[1]) <= p[1] /\ p[1] <= Max(a[1], b[1])
    /\ Min(a[2], b[2]) <= p[2] /\ p[2] <= Max(a[2], b[2])

\* the edge a-b crosses the horizontal ray that leaves p to the right
RayCrosses(a, b, p) ==
    /\ (a[2] > p[2]) # (b[2] > p[2])
    /\ LET d == b[2] - a[2]
           lhs == (p[1] - a[1]) * d
           rhs == (b[1] - a[1]) * (p[2] - a[2])
       IN IF d > 0 THEN lhs < rhs ELSE lhs > rhs

\* the vertex that follows vertex i; the polygon is closed implicitly
NextVertex(poly, i) == poly[(i % Len(poly)) + 1]

\* TRUE when the point is inside the implicitly closed polygon or on its boundary
PointPolygonTest(poly, p) ==
    \/ \E i \in 1..Len(poly) : OnSegment(poly[i], NextVertex(poly, i), p)
    \/ Cardinality({i \in 1..Len(poly) : RayCrosses(poly[i], NextVertex(poly, i), p)}) % 2 = 1

lane_order == [i \in 1..Len(raw_lanes) |-> raw_lanes[i].id]

\* every point put into the first lane of the table
FirstLane(cx, cy) == IF raw_lanes = <<>> THEN "None" ELSE raw_lanes[1].id

\* the last lane of the table whose polygon holds the point
LastLaneHolding(cx, cy) ==
    LET hits == {i \in 1..Len(raw_lanes) :
                    PointPolygonTest(raw_lanes[i].polygon, <<cx, cy>>)}
    IN IF hits = {} THEN "None"
       ELSE raw_lanes[CHOOSE i \in hits : \A j \in hits : j <= i].id

\* first lane, in the order of the lanes file, whose polygon holds the point
point_in_lane(cx, cy) ==
    LET hits == {i \in 1..Len(raw_lanes) :
                    PointPolygonTest(raw_lanes[i].polygon, <<cx, cy>>)}
    IN IF hits = {} THEN "None"
       ELSE raw_lanes[CHOOSE i \in hits : \A j \in hits : i <= j].id

\* a comparison of the two deltas that gives the horizontal axis the tie
infer_direction_tie_horizontal(prev, curr) ==
    LET dx == curr[1] - prev[1]
        dy == curr[2] - prev[2]
    IN IF Abs(dx) < DIRECTION_THRESHOLD /\ Abs(dy) < DIRECTION_THRESHOLD THEN ""
       ELSE IF Abs(dx) >= Abs(dy)
            THEN (IF dx > 0 THEN "RIGHT" ELSE "LEFT")
            ELSE (IF dy > 0 THEN "DOWN" ELSE "UP")

\* infer_direction of src/app.py (lines 173-183)
infer_direction(prev, curr) ==
    LET dx == curr[1] - prev[1]
        dy == curr[2] - prev[2]
    IN IF Abs(dx) < DIRECTION_THRESHOLD /\ Abs(dy) < DIRECTION_THRESHOLD THEN ""
       ELSE IF Abs(dx) > Abs(dy)
            THEN (IF dx > 0 THEN "RIGHT" ELSE "LEFT")
            ELSE (IF dy > 0 THEN "DOWN" ELSE "UP")

\* a purge that also removes a vehicle exactly as old as the timeout
CleanupAtTimeout(vm, now, timeout) ==
    LET keep == {vid \in DOMAIN vm : now - vm[vid].time < timeout}
    IN [vid \in keep |-> vm[vid]]

\* the registry without the vehicles untouched for more than the timeout
cleanup_old_vehicles(vm, now, timeout) ==
    LET keep == {vid \in DOMAIN vm : ~(now - vm[vid].time > timeout)}
    IN [vid \in keep |-> vm[vid]]

-----------------------------------------------------------------------------
(* One detection of a frame (src/app.py:389-442).  The tracker state that  *)
(* the loop over results.boxes threads through is                          *)
(*   [vm, next, lanes] : registry, vehicle_id_counter, lane table.         *)

Centroid(box) == <<(box.x1 + box.x2) \div 2, (box.y1 + box.y2) \div 2>>

\* squared Euclidean distance; np.linalg.norm(a - b) < g  iff  Dist2(a, b) < g * g
Dist2(a, b) == (a[1] - b[1]) * (a[1] - b[1]) + (a[2] - b[2]) * (a[2] - b[2])

\* a scan that also takes a vehicle exactly at the gate
MatchAtGate(vm, centroid) ==
    LET near == {k \in DOMAIN vm : Dist2(vm[k].pos, centroid) <= MATCH_GATE * MATCH_GATE}
        best == {k \in near : \A j \in near :
                    Dist2(vm[k].pos, centroid) <= Dist2(vm[j].pos, centroid)}
    IN IF near = {} THEN <<>>
       ELSE <<CHOOSE k \in best : \A j \in best : k <= j>>

\* the vehicle the scan of vehicle_memory selects: the nearest one below the
\* gate, the first of them in dict order (ids are inserted in increasing
\* order) when several are equally near; <<>> when none qualifies
MatchVehicle(vm, centroid) ==
    LET near == {k \in DOMAIN vm : Dist2(vm[k].pos, centroid) < MATCH_GATE * MATCH_GATE}
        best == {k \in near : \A j \in near :
                    Dist2(vm[k].pos, centroid) <= Dist2(vm[j].pos, centroid)}
    IN IF near = {} THEN <<>>
       ELSE <<CHOOSE k \in best : \A j \in best : k <= j>>

\* a tracker that gives a new vehicle the number of vehicles in the registry
\* as its id
TrackDetectionCountingIds(st, box, now) ==
    IF box.cls \notin VEHICLE_CLASSES THEN st
    ELSE
    LET centroid == Centroid(box)
        current_lane == point_in_lane(centroid[1], centroid[2])
    IN IF current_lane = "None" THEN st
       ELSE
       LET m == MatchVehicle(st.vm, centroid)
           vid == IF m = <<>> THEN Cardinality(DOMAIN st.vm) ELSE m[1]
           created == [pos |-> centroid, time |-> now, lane |-> current_lane,
                       direction |-> "",
                       predicted_next_lane |-> DictGet(LANE_ROUTES, current_lane)]
           old == st.vm[vid]
           updated == [pos |-> centroid, time |-> now,
                       lane |-> current_lane,
                       direction |-> infer_direction(old.pos, centroid),
                       predicted_next_lane |->
                           IF current_lane # old.lane
                           THEN DictGet(LANE_ROUTES, current_lane)
                           ELSE old.predicted_next_lane]
           vm2 == IF m = <<>>
                  THEN [k \in DOMAIN st.vm \cup {vid} |->
                            IF k = vid THEN created ELSE st.vm[k]]
                  ELSE [st.vm EXCEPT ![vid] = updated]
       IN [vm |-> vm2,
           next |-> IF m = <<>> THEN st.next + 1 ELSE st.next,
           lanes |-> [st.lanes EXCEPT ![current_lane].occupied = TRUE,
                                      ![current_lane].last_seen = now]]

\* one detection in src/app.py (lines 389-442): a new vehicle takes the
\* counter as its id
TrackDetection(st, box, now) ==
    IF box.cls \notin VEHICLE_CLASSES THEN st
    ELSE
    LET centroid == Centroid(box)
        current_lane == point_in_lane(centroid[1], centroid[2])
    IN IF current_lane = "None" THEN st
       ELSE
       LET m == MatchVehicle(st.vm, centroid)
           vid == IF m = <<>> THEN st.next ELSE m[1]
           created == [pos |-> centroid, time |-> now, lane |-> current_lane,
                       direction |-> "",
                       predicted_next_lane |-> DictGet(LANE_ROUTES, current_lane)]
           old == st.vm[vid]
           updated == [pos |-> centroid, time |-> now,
                       lane |-> current_lane,
                       direction |-> infer_direction(old.pos, centroid),
                       predicted_next_lane |->
                           IF current_lane # old.lane
                           THEN DictGet(LANE_ROUTES, current_lane)
                           ELSE old.predicted_next_lane]
           vm2 == IF m = <<>>
                  THEN [k \in DOMAIN st.vm \cup {vid} |->
                            IF k = vid THEN created ELSE st.vm[k]]
                  ELSE [st.vm EXCEPT ![vid] = updated]
       IN [vm |-> vm2,
           next |-> IF m = <<>> THEN st.next + 1 ELSE st.next,
           lanes |-> [st.lanes EXCEPT ![current_lane].occupied = TRUE,
                                      ![current_lane].last_seen = now]]

RECURSIVE TrackFrame(_, _, _)
TrackFrame(st, boxes, now) ==
    IF boxes = <<>> THEN st
    ELSE TrackFrame(TrackDetection(st, Head(boxes), now), Tail(boxes), now)

\* infer_direction of src/intersection_final.py (lines 94-104)
infer_direction_final(prev, curr) ==
    LET dx == curr[1] - prev[1]
        dy == curr[2] - prev[2]
    IN IF Abs(dx) < DIRECTION_THRESHOLD /\ Abs(dy) < DIRECTION_THRESHOLD
       THEN "STATIONARY"
       ELSE IF Abs(dx) > Abs(dy)
            THEN (IF dx > 0 THEN "RIGHT" ELSE "LEFT")
            ELSE (IF dy > 0 THEN "DOWN" ELSE "UP")

\* past_lanes[-3:]
LastThree(h) == {h[i] : i \in Max(1, Len(h) - 2)..Len(h)}

\* one detection in src/intersection_final.py (lines 256-315): a matched
\* vehicle changes lane only to a lane that is not among its last three
TrackDetectionFinal(st, box, now) ==
    IF box.cls \notin {"car", "truck", "bus"} THEN st
    ELSE
    LET centroid == Centroid(box)
        current_lane == point_in_lane(centroid[1], centroid[2])
    IN IF current_lane = "None" THEN st
       ELSE
       LET m == MatchVehicle(st.vm, centroid)
           vid == IF m = <<>> THEN st.next ELSE m[1]
           created == [pos |-> centroid, time |-> now, lane |-> current_lane,
                       lane_history |-> <<current_lane>>, direction |-> "UNKNOWN"]
           old == st.vm[vid]
           moved == /\ current_lane # old.lane
                    /\ current_lane \notin LastThree(old.lane_history)
           updated == [pos |-> centroid, time |-> now,
                       lane |-> IF moved THEN current_lane ELSE old.lane,
                       lane_history |-> IF moved THEN Append(old.lane_history, current_lane)
                                        ELSE old.lane_history,
                       direction |-> infer_direction_final(old.pos, centroid)]
           vm2 == IF m = <<>>
                  THEN [k \in DOMAIN st.vm \cup {vid} |->
                            IF k = vid THEN created ELSE st.vm[k]]
                  ELSE [st.vm EXCEPT ![vid] = updated]
       IN [vm |-> vm2,
           next |-> IF m = <<>> THEN st.next + 1 ELSE st.next,
           lanes |-> [st.lanes EXCEPT ![current_lane].occupied = TRUE,
                                      ![current_lane].last_seen = now]]

RECURSIVE TrackFrameFinal(_, _, _)
TrackFrameFinal(st, boxes, now) ==
    IF boxes = <<>> THEN st
    ELSE TrackFrameFinal(TrackDetectionFinal(st, Head(boxes), now), Tail(boxes), now)

\* src/intersection_final.py, lines 250-252: occupied cleared, nothing else
ResetLanesFinal(ls, now) ==
    [l \in DOMAIN ls |->
        [ls[l] EXCEPT !.occupied = IF now - ls[l].last_seen > EMPTY_TIMEOUT
                                   THEN FALSE ELSE ls[l].occupied]]

\* a reset that leaves every occupied flag as it is
ResetKeepingFlags(ls, now) == [l \in DOMAIN ls |-> [ls[l] EXCEPT !.count = 0]]

\* lanes reset at the head of the step: count to zero, occupied cleared once
\* the lane was last seen more than EMPTY_TIMEOUT ago
ResetLanes(ls, now) ==
    [l \in DOMAIN ls |->
        [ls[l] EXCEPT !.count = 0,
                      !.occupied = IF now - ls[l].last_seen > EMPTY_TIMEOUT
                                   THEN FALSE ELSE ls[l].occupied]]

\* a count of every tracked vehicle of the lane, whatever its age
CountAllTracked(vm, ls, now) ==
    [l \in DOMAIN ls |-> Cardinality({vid \in DOMAIN vm : vm[vid].lane = l})]

\* vehicles per lane: those updated within EMPTY_TIMEOUT, by their lane
CountLanes(vm, ls, now) ==
    [l \in DOMAIN ls |->
        Cardinality({vid \in DOMAIN vm :
            now - vm[vid].time <= EMPTY_TIMEOUT /\ vm[vid].lane = l})]

-----------------------------------------------------------------------------
(* Signal controller (src/app.py:313-344)                                  *)

IndexOf(seq, x) == CHOOSE i \in 1..Len(seq) : seq[i] = x /\ \A j \in 1..(i - 1) : seq[j] # x

\* max() keeping the last of several maximal lanes instead of the first
LastBestLane(lane_counts) ==
    LET keys == {i \in 1..Len(lane_order) : lane_order[i] \in DOMAIN lane_counts}
        top == {i \in keys : \A j \in keys :
                    lane_counts[lane_order[i]] >= lane_counts[lane_order[j]]}
    IN lane_order[CHOOSE i \in top : \A j \in top : i >= j]

\* max(lane_counts, key=lane_counts.get): the first key, in dict order (the
\* lane order), that holds the largest count
BestLane(lane_counts) ==
    LET keys == {i \in 1..Len(lane_order) : lane_order[i] \in DOMAIN lane_counts}
        top == {i \in keys : \A j \in keys :
                    lane_counts[lane_order[i]] >= lane_counts[lane_order[j]]}
    IN lane_order[CHOOSE i \in top : \A j \in top : i <= j]

\* a switch on any lead, however small
AnyLeadSwitches(lane_counts, active_lane, best_lane) ==
    /\ best_lane # active_lane
    /\ lane_counts[best_lane] - lane_counts[active_lane] >= 1

\* a comparison that takes the lead of the active lane for the lead of the
\* best lane
LeadReversed(lane_counts, active_lane, best_lane) ==
    /\ best_lane # active_lane
    /\ lane_counts[active_lane] - lane_counts[best_lane] >= COUNT_SWITCH_DELTA

\* the condition under which a green phase that has run GREEN_TIME is left
ShouldSwitch(lane_counts, active_lane, best_lane) ==
    /\ best_lane # active_lane
    /\ lane_counts[best_lane] - lane_counts[active_lane] >= COUNT_SWITCH_DELTA

\* a yellow phase that must run longer than YELLOW_TIME
YellowDueLate(elapsed) == elapsed > YELLOW_TIME

GreenDue(elapsed) == elapsed >= GREEN_TIME
YellowDue(elapsed) == elapsed >= YELLOW_TIME

\* the active lane alone, pairing ignored
OnlyActiveLane(active_lane) == {active_lane}

\* the lanes that show light_state: the active lane and its partner
GreenLanes(active_lane) == {active_lane, DictGet(PAIRED_LANES, active_lane)}

\* the signal each lane is given at the end of update_traffic_lights
SignalOf(lane, green_lanes, state) == IF lane \in green_lanes THEN state ELSE "RED"

\* a phase machine that leaves the pending lane in place when the yellow
\* phase ends
PhaseStepKeepingPending(c, lane_counts, t) ==
    LET elapsed == t - c.last_switch_time
        active_lane == lane_order[c.current_lane_index + 1]
        best_lane == BestLane(lane_counts)
    IN IF c.light_state = "GREEN" /\ GreenDue(elapsed)
       THEN IF ShouldSwitch(lane_counts, active_lane, best_lane)
            THEN [c EXCEPT !.light_state = "YELLOW",
                           !.pending_lane_index = <<IndexOf(lane_order, best_lane) - 1>>,
                           !.last_switch_time = t]
            ELSE c
       ELSE IF c.light_state = "YELLOW" /\ YellowDue(elapsed)
       THEN [c EXCEPT !.light_state = "GREEN",
                      !.current_lane_index =
                          IF c.pending_lane_index # <<>>
                          THEN c.pending_lane_index[1] ELSE @,
                      !.last_switch_time = t]
       ELSE c

\* the phase machine, the same text in both programs (src/app.py:319-334,
\* src/intersection_final.py:153-173), at time t on the controller c
PhaseStep(c, lane_counts, t) ==
    LET elapsed == t - c.last_switch_time
        active_lane == lane_order[c.current_lane_index + 1]
        best_lane == BestLane(lane_counts)
    IN IF c.light_state = "GREEN" /\ GreenDue(elapsed)
       THEN IF ShouldSwitch(lane_counts, active_lane, best_lane)
            THEN [c EXCEPT !.light_state = "YELLOW",
                           !.pending_lane_index = <<IndexOf(lane_order, best_lane) - 1>>,
                           !.last_switch_time = t]
            ELSE c
       ELSE IF c.light_state = "YELLOW" /\ YellowDue(elapsed)
       THEN [c EXCEPT !.light_state = "GREEN",
                      !.current_lane_index =
                          IF c.pending_lane_index # <<>>
                          THEN c.pending_lane_index[1] ELSE @,
                      !.pending_lane_index = <<>>,
                      !.last_switch_time = t]
       ELSE c

\* update_traffic_lights(lane_counts) at time t on the controller c =
\* [light_state, current_lane_index, pending_lane_index, last_switch_time]
\* and the lane table ls; the result is [ctl, lanes]
update_traffic_lights(c, ls, lane_counts, t) ==
    IF lane_order = <<>> THEN [ctl |-> c, lanes |-> ls]
    ELSE
    LET c2 == PhaseStep(c, lane_counts, t)
        green_lanes == GreenLanes(lane_order[c2.current_lane_index + 1])
    IN [ctl |-> c2,
        lanes |-> [l \in DOMAIN ls |->
                     [ls[l] EXCEPT !.signal = SignalOf(l, green_lanes, c2.light_state)]]]

\* the exception that update_traffic_lights ends with, "" when it returns:
\* max() of an empty dict fails at line 322, and lane_counts[active_lane] at
\* line 323 fails for an active lane without entry, which is evaluated
\* whenever the best lane is another one
Raised(c, lane_counts, t) ==
    IF lane_order = <<>> THEN ""
    ELSE IF ~(c.light_state = "GREEN" /\ GreenDue(t - c.last_switch_time)) THEN ""
    ELSE IF DOMAIN lane_counts = {} THEN "ValueError"
    ELSE IF /\ BestLane(lane_counts) # lane_order[c.current_lane_index + 1]
            /\ lane_order[c.current_lane_index + 1] \notin DOMAIN lane_counts
         THEN "KeyError"
    ELSE ""

\* the lanes that have a light on the Arduino (src/intersection_final.py
\* lines 34-39)
LANE_TO_ARDUINO ==
    [lane_1 |-> "north", lane_2 |-> "south", lane_3 |-> "east", lane_4 |-> "west"]

\* send_to_arduino(lane, color) of src/intersection_final.py (lines 107-147):
\* the commands written to the serial port, none for a lane without light or
\* with the port closed.  fail: ser.write raises, which the except clause
\* answers with False; the command is written once whatever comes back.
send_to_arduino(lane, color, fail) ==
    IF lane \notin DOMAIN LANE_TO_ARDUINO \/ ~ser THEN <<>>
    ELSE <<[to |-> LANE_TO_ARDUINO[lane], what |-> color, ok |-> ~fail]>>

\* update_traffic_lights of src/intersection_final.py (lines 150-178): the
\* same phase machine, the active lane alone showing light_state; the lanes
\* file of this program is never empty (lines 49-54 exit otherwise)
update_traffic_lights_final(c, ls, lane_counts, t, fail) ==
    LET c2 == PhaseStep(c, lane_counts, t)
        active_lane == lane_order[c2.current_lane_index + 1]
    IN [ctl |-> c2,
        lanes |-> [l \in DOMAIN ls |->
                     [ls[l] EXCEPT !.signal = IF l = active_lane THEN c2.light_state
                                              ELSE "RED"]],
        sent |-> IF c.light_state = "GREEN" /\ c2.light_state = "YELLOW"
                 THEN send_to_arduino(lane_order[c.current_lane_index + 1], "yellow", fail)
                 ELSE IF c.light_state = "YELLOW" /\ c2.light_state = "GREEN"
                 THEN send_to_arduino(active_lane, "green", fail)
                 ELSE <<>>]

\* the document that save_to_mongodb builds from the lane table (lines 229-239)
LanesDocument(ls, t) ==
    [timestamp |-> t,
     lanes |-> [i \in 1..Len(lane_order) |->
                  [lane |-> lane_order[i], count |-> ls[lane_order[i]].count,
                   signal |-> ls[lane_order[i]].signal,
                   occupied |-> ls[lane_order[i]].occupied]]]

\* a logger that records on every call
LogAlwaysDue(t, last) == TRUE

\* the logging gate: at least MONGO_LOG_INTERVAL since the last attempt
LogDue(t, last) == ~(t - last < MONGO_LOG_INTERVAL)

\* a logger that takes a failed write as not tried
SaveForgettingFailure(last, sink, ls, t, fail) ==
    IF ~mongo_db \/ ~LogDue(t, last)
    THEN [last |-> last, sink |-> sink, wrote |-> <<>>]
    ELSE IF fail # 0
    THEN [last |-> last, sink |-> sink,
          wrote |-> <<[to |-> "lanes", what |-> "insert_one", ok |-> FALSE]>>]
    ELSE [last |-> t, sink |-> LanesDocument(ls, t),
          wrote |-> <<[to |-> "lanes", what |-> "insert_one", ok |-> TRUE],
                      [to |-> "simulations", what |-> "insert_one", ok |-> TRUE]>>]

\* save_to_mongodb() at time t: [last, sink, wrote], the time of the last
\* logging attempt, the document that the lanes collection took last, and
\* the calls of insert_one made.  fail: 0 when both calls return, 1 when the
\* first raises, 2 when the second does; the except clause of line 255 ends
\* the function at the call that raised.
save_to_mongodb(last, sink, ls, t, fail) ==
    IF ~mongo_db THEN [last |-> last, sink |-> sink, wrote |-> <<>>]
    ELSE IF ~LogDue(t, last) THEN [last |-> last, sink |-> sink, wrote |-> <<>>]
    ELSE [last |-> t,
          sink |-> IF fail = 1 THEN sink ELSE LanesDocument(ls, t),
          wrote |-> IF fail = 1
                    THEN <<[to |-> "lanes", what |-> "insert_one", ok |-> FALSE]>>
                    ELSE <<[to |-> "lanes", what |-> "insert_one", ok |-> TRUE],
                           [to |-> "simulations", what |-> "insert_one", ok |-> fail # 2]>>]

-----------------------------------------------------------------------------
(* Network simulation (src/app.py:195-310)                                 *)

\* a route target "intersection.lane" is the sequence of its dot-separated
\* pieces with the dots kept as "." tokens; <<>> is None or the empty string
RECURSIVE Join(_)
Join(toks) == IF toks = <<>> THEN "" ELSE Head(toks) \o Join(Tail(toks))

_parse_target_lane(target) ==
    IF target = <<>> THEN <<"None", "None">>
    ELSE IF \A i \in 1..Len(target) : target[i] # "." THEN <<"None", "None">>
    ELSE LET d == CHOOSE i \in 1..Len(target) :
                      target[i] = "." /\ \A j \in 1..(i - 1) : target[j] # "."
         IN <<Join(SubSeq(target, 1, d - 1)), Join(SubSeq(target, d + 1, Len(target)))>>

\* Python truthiness of a parsed piece: None and "" are false
Truthy(s) == s # "None" /\ s # ""

\* the handoff without the minimum
HandoffWithoutMinimum(count) ==
    IF count <= 0 THEN 0
    ELSE Min((count * SIM_HANDOFF_NUM) \div SIM_HANDOFF_DEN, count)

_handoff_amount(count) ==
    IF count <= 0 THEN 0
    ELSE LET floor == (count * SIM_HANDOFF_NUM) \div SIM_HANDOFF_DEN
             transfer == IF floor < SIM_MIN_HANDOFF THEN SIM_MIN_HANDOFF ELSE floor
         IN Min(transfer, count)

\* simulation_counts.get(i, {}).get(l, 0)
SimGet(sc, i, l) ==
    IF i \in DOMAIN sc /\ l \in DOMAIN sc[i] THEN sc[i][l] ELSE 0

\* a tick without its gate
TickAlwaysDue(now, last) == TRUE

\* the tick gate: at least SIM_TICK_SECONDS since the last firing tick
TickDue(now, last) == ~(now - last < SIM_TICK_SECONDS)

\* a tick that leaves the mirror intersection as it finds it
MirrorKept(sc, ls) == sc

\* step 1: the mirror intersection takes the live lane counts
MirrorLive(sc, ls) ==
    [i \in DOMAIN sc |->
        IF i = SIM_MIRROR_INTERSECTION
        THEN [l \in DOMAIN sc[i] |-> IF l \in DOMAIN ls THEN ls[l].count ELSE sc[i][l]]
        ELSE sc[i]]

\* a tick that resets no intersection
ResetSkipped(sc) == sc

\* step 2: every other intersection is reset to zero
ResetOthers(sc) ==
    [i \in DOMAIN sc |->
        IF i = SIM_MIRROR_INTERSECTION THEN sc[i]
        ELSE [l \in DOMAIN sc[i] |-> 0]]

\* the routes of the configuration in iteration order: <<intersection, lane, target>>
RECURSIVE RoutesOf(_)
RoutesOf(cfg) ==
    IF cfg = <<>> THEN <<>>
    ELSE [k \in 1..Len(Head(cfg).outgoing) |->
             <<Head(cfg).id, Head(cfg).outgoing[k][1], Head(cfg).outgoing[k][2]>>]
         \o RoutesOf(Tail(cfg))

\* step 3: the transfers list, computed from the counts sc
RECURSIVE ComputeTransfers(_, _)
ComputeTransfers(routes, sc) ==
    IF routes = <<>> THEN <<>>
    ELSE LET r == Head(routes)
             tgt == _parse_target_lane(r[3])
             transfer == _handoff_amount(SimGet(sc, r[1], r[2]))
             rest == ComputeTransfers(Tail(routes), sc)
         IN IF ~Truthy(tgt[1]) \/ ~Truthy(tgt[2]) THEN rest
            ELSE IF transfer <= 0 THEN rest
            ELSE <<[src_i |-> r[1], src_l |-> r[2],
                    dst_i |-> tgt[1], dst_l |-> tgt[2], amount |-> transfer]>> \o rest

\* a transfer applied as soon as its source is known
SourceKnown(sc, tr) ==
    /\ tr.src_i \in DOMAIN sc
    /\ tr.src_l \in DOMAIN sc[tr.src_i]

\* a transfer is applied only when both of its ends are known
Applicable(sc, tr) ==
    /\ tr.src_i \in DOMAIN sc
    /\ tr.dst_i \in DOMAIN sc
    /\ tr.src_l \in DOMAIN sc[tr.src_i]
    /\ tr.dst_l \in DOMAIN sc[tr.dst_i]

ApplyTransfer(sc, tr) ==
    IF ~Applicable(sc, tr) THEN sc
    ELSE LET s1 == [sc EXCEPT ![tr.src_i][tr.src_l] = @ - tr.amount]
         IN [s1 EXCEPT ![tr.dst_i][tr.dst_l] = @ + tr.amount]

\* step 4: the batch of transfers applied in order
RECURSIVE ApplyTransfers(_, _)
ApplyTransfers(sc, transfers) ==
    IF transfers = <<>> THEN sc
    ELSE ApplyTransfers(ApplyTransfer(sc, Head(transfers)), Tail(transfers))

\* an intersection configuration taken as loaded whatever it holds
ConfigAssumedLoaded(net) == TRUE

\* "if not intersections" fails: the configuration holds an intersection
ConfigLoaded(net) == net # <<>>

\* the routes visited one after the other, the amount of each computed from
\* the counts that the transfers before it have left and applied at once
RECURSIVE TransferInTurn(_, _)
TransferInTurn(routes, sc) ==
    IF routes = <<>> THEN sc
    ELSE TransferInTurn(Tail(routes),
                        ApplyTransfers(sc, ComputeTransfers(<<Head(routes)>>, sc)))

\* a tick without snapshot
TickInTurn(sc, last, ls, now) ==
    IF ~ConfigLoaded(intersections) THEN [counts |-> sc, last |-> last, fired |-> FALSE]
    ELSE IF ~TickDue(now, last) THEN [counts |-> sc, last |-> last, fired |-> FALSE]
    ELSE [counts |-> TransferInTurn(RoutesOf(intersections), ResetOthers(MirrorLive(sc, ls))),
          last |-> now, fired |-> TRUE]

\* tick_simulation() at time now: [counts, last, fired]
tick_simulation(sc, last, ls, now) ==
    IF ~ConfigLoaded(intersections) THEN [counts |-> sc, last |-> last, fired |-> FALSE]
    ELSE IF ~TickDue(now, last) THEN [counts |-> sc, last |-> last, fired |-> FALSE]
    ELSE LET base == ResetOthers(MirrorLive(sc, ls))
         IN [counts |-> ApplyTransfers(base, ComputeTransfers(RoutesOf(intersections), base)),
             last |-> now, fired |-> TRUE]

-----------------------------------------------------------------------------
(* Manual override, POST /simulation/update (src/app.py:569-597)           *)
(*                                                                         *)
(* A JSON count is [kind, n, d]: the integer n ("int"), the float n/d      *)
(* ("float"), a string that is no number ("text"), or null/absent          *)
(* ("none").  A request body is [counts, intersection, lane, count];       *)
(* counts is the bulk map in its order, <<[id, lanes: <<<<lane, count>>>>]>>, *)
(* and <<>> when the key is absent or the map is empty.                    *)

JInt(v) == [kind |-> "int", n |-> v, d |-> 1]
JFloat(num, den) == [kind |-> "float", n |-> num, d |-> den]
JText == [kind |-> "text", n |-> 0, d |-> 1]
JNone == [kind |-> "none", n |-> 0, d |-> 1]

\* int() rounding a fraction up instead of cutting it off
PyIntRoundUp(c) ==
    IF c.kind \in {"int", "float"}
    THEN [ok |-> TRUE, v |-> (c.n + c.d - 1) \div c.d]
    ELSE [ok |-> FALSE, v |-> 0]

\* int(count): truncation toward zero; ok is FALSE when int() raises
PyInt(c) ==
    IF c.kind \in {"int", "float"}
    THEN [ok |-> TRUE,
          v |-> IF c.n >= 0 THEN c.n \div c.d ELSE -((-c.n) \div c.d)]
    ELSE [ok |-> FALSE, v |-> 0]

\* the count stored without the clamp
UnclampedCount(c) == PyInt(c).v

\* max(0, int(count))
ClampCount(c) == Max(0, PyInt(c).v)

\* the inner loop over one intersection's lanes_map: [counts, ok]
RECURSIVE ApplyLanesMap(_, _, _)
ApplyLanesMap(sc, iid, lanes_map) ==
    IF lanes_map = <<>> THEN [counts |-> sc, ok |-> TRUE]
    ELSE LET lid == Head(lanes_map)[1]
             c == Head(lanes_map)[2]
         IN IF lid \notin DOMAIN sc[iid]
            THEN ApplyLanesMap(sc, iid, Tail(lanes_map))
            ELSE IF ~PyInt(c).ok THEN [counts |-> sc, ok |-> FALSE]
            ELSE ApplyLanesMap([sc EXCEPT ![iid][lid] = ClampCount(c)],
                               iid, Tail(lanes_map))

\* a bulk loop that stops at the first unknown intersection
RECURSIVE ApplyBulkUntilUnknown(_, _)
ApplyBulkUntilUnknown(sc, updates) ==
    IF updates = <<>> THEN [counts |-> sc, ok |-> TRUE]
    ELSE LET u == Head(updates)
         IN IF u.id \notin DOMAIN sc THEN [counts |-> sc, ok |-> TRUE]
            ELSE LET r == ApplyLanesMap(sc, u.id, u.lanes)
                 IN IF ~r.ok THEN r ELSE ApplyBulkUntilUnknown(r.counts, Tail(updates))

\* the outer loop over the bulk map: [counts, ok]
RECURSIVE ApplyBulk(_, _)
ApplyBulk(sc, updates) ==
    IF updates = <<>> THEN [counts |-> sc, ok |-> TRUE]
    ELSE LET u == Head(updates)
         IN IF u.id \notin DOMAIN sc THEN ApplyBulk(sc, Tail(updates))
            ELSE LET r == ApplyLanesMap(sc, u.id, u.lanes)
                 IN IF ~r.ok THEN r ELSE ApplyBulk(r.counts, Tail(updates))

\* the single form is rejected when its target is unknown or its count missing
SingleRejected(sc, payload) ==
    \/ payload.intersection \notin DOMAIN sc
    \/ payload.lane \notin DOMAIN sc[payload.intersection]
    \/ payload.count.kind = "none"

\* the body of "with lock" up to the call of tick_simulation:
\* [counts, status]; 200 goes on to the tick, 400 is the rejection, 500 is
\* an exception raised by int()
ApplyOverride(sc, payload) ==
    IF payload.counts # <<>>
    THEN LET r == ApplyBulk(sc, payload.counts)
         IN [counts |-> r.counts, status |-> IF r.ok THEN 200 ELSE 500]
    ELSE IF SingleRejected(sc, payload) THEN [counts |-> sc, status |-> 400]
    ELSE IF ~PyInt(payload.count).ok THEN [counts |-> sc, status |-> 500]
    ELSE [counts |-> [sc EXCEPT ![payload.intersection][payload.lane] =
                                    ClampCount(payload.count)],
          status |-> 200]

\* simulation_update(): [counts, last, status]
simulation_update(sc, last, ls, payload, now) ==
    IF ~ConfigLoaded(intersections) THEN [counts |-> sc, last |-> last, status |-> 400]
    ELSE LET r == ApplyOverride(sc, payload)
             t == tick_simulation(r.counts, last, ls, now)
         IN IF r.status # 200
            THEN [counts |-> r.counts, last |-> last, status |-> r.status]
            ELSE [counts |-> t.counts, last |-> t.last, status |-> 200]

-----------------------------------------------------------------------------
(* Configurations and inputs the specifications draw from                  *)

Square(x0) == << <<x0, 0>>, <<x0, 100>>, <<x0 + 100, 100>>, <<x0 + 100, 0>> >>

\* lane_1 repeats its first point at the end, as the lanes file of the tests does
Lane1 == [id |-> "lane_1", polygon |-> Square(0) \o << <<0, 0>> >>]
Lane2 == [id |-> "lane_2", polygon |-> Square(200)]
Lane3 == [id |-> "lane_3", polygon |-> Square(400)]

\* a lane that shares the strip from x = 50 to x = 100 with lane_1
LaneOver == [id |-> "lane_2", polygon |-> Square(50)]
LanesOverlap == <<Lane1, LaneOver>>
LanesOverlapRev == <<LaneOver, Lane1>>

LanesUnpaired == <<Lane1, Lane3>>
LanesPaired == <<Lane1, Lane2>>
LanesThree == <<Lane1, Lane2, Lane3>>

Box(cls, cx, cy) ==
    [cls |-> cls, x1 |-> cx - 10, y1 |-> cy - 10, x2 |-> cx + 10, y2 |-> cy + 10]

\* five cars in the square lane that starts at x0, pairwise at least
\* MATCH_GATE apart
FiveCars(x0) ==
    <<Box("car", x0 + 10, 10), Box("truck", x0 + 90, 10), Box("bus", x0 + 10, 90),
      Box("car", x0 + 90, 90), Box("bicycle", x0 + 50, 50)>>

FrameEmpty == <<>>
FrameLane2x5 == FiveCars(200)
FrameLane3x5 == FiveCars(400)
\* one car in lane_1, two in lane_2 and two in lane_3
FrameMixed == <<Box("car", 50, 50), Box("car", 210, 10), Box("car", 290, 90),
                Box("car", 410, 10), Box("car", 490, 90)>>

CtlFrames == {FrameEmpty, FrameLane2x5, FrameLane3x5, FrameMixed}
SimFrames == {FrameEmpty, FrameMixed}
FinalFrames == {FrameEmpty, FrameLane2x5, FrameMixed}

\* detections that are dropped: a car between the lanes, a pedestrian inside
\* lane_1, a truck beyond the last lane
FrameMiss == <<Box("car", 150, 50), Box("person", 50, 50), Box("truck", 350, 50)>>
\* two cars in lane_2, more than the gate apart
FrameNear == <<Box("car", 210, 10), Box("car", 250, 50)>>
\* one car in lane_2 within the gate of both cars of FrameNear, nearer to the first
FrameShift == <<Box("car", 225, 25)>>
\* two vehicles between and beside the lanes
FrameOutside == <<Box("car", 150, 50), Box("truck", 350, 50)>>
TrackFrames == {FrameEmpty, FrameMiss, FrameOutside, FrameNear, FrameShift}
\* one car in lane_1
FrameOne == <<Box("car", 50, 50)>>
PurgeFrames == {FrameEmpty, FrameOne}
\* one car each: in lane_1 alone, in both lanes, on the right edge of lane_1
\* inside the other lane, on the far corner of the other lane, and beyond both
LaneFrames == { <<Box("car", 25, 50)>>, <<Box("car", 75, 50)>>, <<Box("car", 100, 50)>>,
                <<Box("car", 150, 100)>>, <<Box("car", 160, 50)>> }

\* four lanes that meet in the point (100, 100), and one car a frame close
\* to that point, in each lane in turn
Quadrant(x0, y0) == << <<x0, y0>>, <<x0, y0 + 100>>, <<x0 + 100, y0 + 100>>, <<x0 + 100, y0>> >>
LanesCross == << [id |-> "lane_1", polygon |-> Quadrant(0, 0)],
                 [id |-> "lane_2", polygon |-> Quadrant(100, 0)],
                 [id |-> "lane_3", polygon |-> Quadrant(100, 100)],
                 [id |-> "lane_4", polygon |-> Quadrant(0, 100)] >>
CrossFrames == { <<Box("car", 90, 90)>>, <<Box("car", 110, 90)>>,
                 <<Box("car", 110, 110)>>, <<Box("car", 90, 110)>> }

\* two cars inside lane_1, 30 apart
FrameClose == <<Box("car", 20, 80), Box("car", 50, 80)>>
\* one car in a corner of lane_1, farther than MATCH_GATE from the car of
\* FrameOne
FrameCorner == <<Box("car", 10, 10)>>
WaitFrames == {FrameEmpty, FrameOne, FrameCorner}
\* one car a frame inside lane_1, at centroids 0, 7, 8 and 20 apart on each
\* axis, and the frame with the two cars
MoveCoordinates == {40, 47, 48, 60}
MoveFrames == { <<Box("car", x, y)>> : x \in MoveCoordinates, y \in MoveCoordinates }
                 \cup {FrameClose}

Target(i, l) == <<i, ".", l>>

\* a network whose mirror feeds intersection_2 over two routes into one lane;
\* lane_9 of the mirror is no lane of the lane table
NetA ==
    <<[id |-> "intersection_1", lanes |-> <<"lane_1", "lane_2", "lane_9">>,
       outgoing |-> << <<"lane_1", Target("intersection_2", "lane_a")>>,
                       <<"lane_2", Target("intersection_1", "lane_9")>>,
                       <<"lane_9", Target("intersection_2", "lane_a")>> >>],
      [id |-> "intersection_2", lanes |-> <<"lane_a", "lane_b">>,
       outgoing |-> << <<"lane_a", Target("intersection_3", "lane_x")>>,
                       <<"lane_b", <<>> >> >>],
      [id |-> "intersection_3", lanes |-> <<"lane_x">>, outgoing |-> <<>>]>>

\* a network with routes to an unknown intersection, to an unknown lane, from
\* a lane the intersection does not have, and with a target that has no dot
NetB ==
    <<[id |-> "intersection_1", lanes |-> <<"lane_1", "lane_2">>,
       outgoing |-> << <<"lane_1", Target("intersection_9", "lane_q")>>,
                       <<"lane_2", <<"intersection_2", ".", "lane_a", ".", "x">> >>,
                       <<"lane_7", Target("intersection_2", "lane_a")>> >>],
      [id |-> "intersection_2", lanes |-> <<"lane_a">>,
       outgoing |-> << <<"lane_a", <<"intersection_1">> >> >>]>>

NetNone == <<>>

NoReq == [counts |-> <<>>, intersection |-> "None", lane |-> "None", count |-> JNone,
          boxes |-> <<>>]
Single(i, l, c) == [counts |-> <<>>, intersection |-> i, lane |-> l, count |-> c,
                    boxes |-> <<>>]
Bulk(updates) == [counts |-> updates, intersection |-> "None", lane |-> "None", count |-> JNone,
                 boxes |-> <<>>]

Payloads ==
    { Single("intersection_2", "lane_a", JInt(5)),
      Single("intersection_1", "lane_1", JInt(3)),
      Single("intersection_1", "lane_9", JInt(-4)),
      Single("intersection_1", "lane_9", JFloat(9, 2)),
      Single("intersection_2", "lane_zz", JInt(1)),
      Single("intersection_2", "lane_a", JNone),
      Single("intersection_2", "lane_a", JText),
      Bulk(<<[id |-> "intersection_2",
              lanes |-> << <<"lane_a", JFloat(-5, 2)>>, <<"lane_zz", JInt(1)>> >>],
             [id |-> "intersection_7", lanes |-> << <<"lane_a", JInt(1)>> >>],
             [id |-> "intersection_1", lanes |-> << <<"lane_2", JInt(6)>> >>]>>),
      Bulk(<<[id |-> "intersection_2",
              lanes |-> << <<"lane_a", JInt(2)>>, <<"lane_b", JText>> >>]>>) }

-----------------------------------------------------------------------------
(* Initial state: the module-level code of src/app.py (lines 78-150)       *)

\* last_switch_time is set before the detection model is loaded and the
\* database is pinged (lines 143-159), which take loadDelay clock units
InitDevices(programs, laneFiles, nets, mongo, loadDelay) ==
    /\ program \in programs
    /\ clock = Epoch + loadDelay
    /\ raw_lanes \in laneFiles
    /\ lanes = [l \in {raw_lanes[i].id : i \in 1..Len(raw_lanes)} |->
                   [occupied |-> FALSE, last_seen |-> 0, signal |-> "RED", count |-> 0]]
    /\ vehicle_memory = <<>>
    /\ visited = <<>>
    /\ vehicle_id_counter = 0
    /\ light_state = "GREEN"
    /\ current_lane_index = 0
    /\ pending_lane_index = <<>>
    /\ last_switch_time = Epoch
    /\ intersections \in nets
    /\ simulation_counts =
           [i \in {intersections[k].id : k \in 1..Len(intersections)} |->
               LET cfg == intersections[CHOOSE k \in 1..Len(intersections) :
                                            intersections[k].id = i]
               IN [l \in {cfg.lanes[j] : j \in 1..Len(cfg.lanes)} |-> 0]]
    /\ last_simulation_tick = 0
    /\ mongo_db \in mongo
    /\ last_mongo_log = 0
    /\ mongo_sink = <<>>
    /\ lock = "free"
    /\ step_now = 0
    /\ committed = lanes
    /\ body = <<>>
    /\ op = "load"
    /\ req = NoReq
    /\ resp = 0

\* the state after the load with the serial port of src/intersection_final.py
\* open (lines 189-205); src/app.py has no serial port
InitWith(programs, laneFiles, nets, mongo, loadDelay) ==
    /\ InitDevices(programs, laneFiles, nets, mongo, loadDelay)
    /\ ser = (program = "intersection_final")

-----------------------------------------------------------------------------
(* Entry points                                                            *)

Ctl == [light_state |-> light_state, current_lane_index |-> current_lane_index,
        pending_lane_index |-> pending_lane_index, last_switch_time |-> last_switch_time]

\* time passes between two entry points
Advance(horizon) ==
    /\ clock < Epoch + horizon
    /\ clock' = clock + 1
    /\ op' = "clock" /\ req' = NoReq /\ resp' = 0 /\ body' = <<>>
    /\ UNCHANGED <<lanes, vehicle_memory, visited, vehicle_id_counter, ctlVars, simVars, cfgVars,
                   last_mongo_log, mongo_sink, lockVars, committed>>

\* a lock that never makes anybody wait
AlwaysAcquirable(l) == TRUE

\* "with lock:" can be entered when nobody holds the lock
Acquirable(l) == l = "free"

\* the body of "with lock" of generate_frames from the inference on (lines
\* 386-474), on the registry vm0 and the lane table lanes0 that the purge and
\* the reset left: now is the time read on entry, t the time that the
\* controller and the logger read.  The intermediate values are bound by \E
\* over singleton sets, so each is computed once.
\* the lanes held of late by the vehicles of the registry vm1 that a pass
\* leaves, vm0 being the registry the pass began with after the purge
VisitedAfter(vm0, vm1) ==
    [vid \in DOMAIN vm1 |->
        IF vid \notin DOMAIN vm0 THEN <<vm1[vid].lane>>
        ELSE IF vm1[vid].lane = vm0[vid].lane THEN visited[vid]
        ELSE LET h == Append(visited[vid], vm1[vid].lane)
             IN SubSeq(h, Max(1, Len(h) - 2), Len(h))]

LockedBody(frame, vm0, lanes0, now, t, fail) ==
    \E st \in {TrackFrame([vm |-> vm0, next |-> vehicle_id_counter, lanes |-> lanes0],
                          frame, now)} :
    \E lane_counts \in {CountLanes(st.vm, st.lanes, now)} :
    \E counted \in {[l \in DOMAIN st.lanes |-> [st.lanes[l] EXCEPT !.count = lane_counts[l]]]} :
    \E r \in {update_traffic_lights(Ctl, counted, lane_counts, t)} :
    \E m \in {save_to_mongodb(last_mongo_log, mongo_sink, r.lanes, t, fail)} :
       /\ st.next <= MaxIds
       /\ vehicle_memory' = st.vm
       /\ visited' = VisitedAfter(vm0, st.vm)
       /\ vehicle_id_counter' = st.next
       /\ lanes' = r.lanes
       /\ committed' = r.lanes
       /\ light_state' = r.ctl.light_state
       /\ current_lane_index' = r.ctl.current_lane_index
       /\ pending_lane_index' = r.ctl.pending_lane_index
       /\ last_switch_time' = r.ctl.last_switch_time
       /\ last_mongo_log' = m.last
       /\ mongo_sink' = m.sink
       /\ op' = "step" /\ req' = [NoReq EXCEPT !.boxes = frame] /\ resp' = 0
       /\ body' = m.wrote

\* one pass of the loop of generate_frames under the lock (lines 375-474),
\* taken as a whole: now is read before the inference, which takes lag clock
\* units while the lock is held; fail says which write to the sink raises
ProcessingPass(frame, lag, horizon, fail) ==
    /\ program = "app"
    /\ Acquirable(lock)
    /\ clock + lag <= Epoch + horizon
    /\ LockedBody(frame, cleanup_old_vehicles(vehicle_memory, clock, STALE_TIMEOUT),
                  ResetLanes(lanes, clock), clock, clock + lag, fail)
    /\ clock' = clock + lag
    /\ UNCHANGED <<simVars, cfgVars, lockVars>>

\* the pass whose writes to the sink all return
ProcessingStep(frame, lag, horizon) == ProcessingPass(frame, lag, horizon, 0)

\* one pass of a stream that had to wait for the lock: now is read at line
\* 375, the lock is requested at line 377 and obtained wait clock units
\* later, when another stream (the server is threaded, line 604, and every
\* request of /video_feed runs generate_frames) has left it; the purge reads
\* the time again (line 188)
WaitingPass(frame, wait) ==
    /\ program = "app"
    /\ Acquirable(lock)
    /\ clock - wait >= Epoch
    /\ LockedBody(frame, cleanup_old_vehicles(vehicle_memory, clock, STALE_TIMEOUT),
                  ResetLanes(lanes, clock - wait), clock - wait, clock, 0)
    /\ UNCHANGED <<clock, simVars, cfgVars, lockVars>>

\* the same pass in two steps: the lock is taken, the registry purged and the
\* lane counts reset (lines 377-384) ...
StepEnter ==
    /\ program = "app"
    /\ Acquirable(lock)
    /\ lock' = "generate_frames"
    /\ step_now' = clock
    /\ vehicle_memory' = cleanup_old_vehicles(vehicle_memory, clock, STALE_TIMEOUT)
    /\ visited' = [vid \in DOMAIN vehicle_memory' |-> visited[vid]]
    /\ lanes' = ResetLanes(lanes, clock)
    /\ op' = "enter" /\ req' = NoReq /\ resp' = 0 /\ body' = <<>>
    /\ UNCHANGED <<clock, vehicle_id_counter, ctlVars, simVars, cfgVars, last_mongo_log,
                   mongo_sink, committed>>

\* ... and, the inference done, the rest of the body runs and the lock is released
StepLeave(frame) ==
    /\ lock = "generate_frames"
    /\ LockedBody(frame, vehicle_memory, lanes, step_now, clock, 0)
    /\ lock' = "free"
    /\ step_now' = 0
    /\ UNCHANGED <<clock, simVars, cfgVars>>

\* ... or the inference raises (line 387): the exception leaves the with
\* block of line 377, which releases the lock, and ends the generator with
\* the registry purged and the counts reset
StepRaise ==
    /\ lock = "generate_frames"
    /\ lock' = "free"
    /\ step_now' = 0
    /\ op' = "step_error" /\ req' = NoReq /\ resp' = 500 /\ body' = <<>>
    /\ UNCHANGED <<clock, lanes, vehicle_memory, visited, vehicle_id_counter, ctlVars, simVars,
                   cfgVars, last_mongo_log, mongo_sink, committed>>

\* one pass of the main loop of src/intersection_final.py (lines 242-371);
\* the count field keeps the lane_counts of the pass, which line 359 prints.
\* Every lane id of the lane files used here is a key of LANE_DIRECTIONS,
\* which line 337 indexes.  fail says whether the write to the serial port
\* raises.
MainLoopPass(frame, lag, horizon, fail) ==
    /\ program = "intersection_final"
    /\ \E now \in {clock}, t \in {clock + lag} :
       \E st \in {TrackFrameFinal(
                     [vm |-> cleanup_old_vehicles(vehicle_memory, now, STALE_TIMEOUT),
                      next |-> vehicle_id_counter,
                      lanes |-> ResetLanesFinal(lanes, now)], frame, now)} :
       \E lane_counts \in {CountLanes(st.vm, st.lanes, now)} :
       \E counted \in {[l \in DOMAIN st.lanes |->
                           [st.lanes[l] EXCEPT !.count = lane_counts[l]]]} :
       \E r \in {update_traffic_lights_final(Ctl, counted, lane_counts, t, fail)} :
          /\ t <= Epoch + horizon
          /\ st.next <= MaxIds
          /\ clock' = t
          /\ vehicle_memory' = st.vm
          /\ visited' = VisitedAfter(cleanup_old_vehicles(vehicle_memory, now, STALE_TIMEOUT),
                                     st.vm)
          /\ vehicle_id_counter' = st.next
          /\ lanes' = r.lanes
          /\ committed' = r.lanes
          /\ light_state' = r.ctl.light_state
          /\ current_lane_index' = r.ctl.current_lane_index
          /\ pending_lane_index' = r.ctl.pending_lane_index
          /\ last_switch_time' = r.ctl.last_switch_time
          /\ op' = "step" /\ req' = [NoReq EXCEPT !.boxes = frame] /\ resp' = 0
          /\ body' = r.sent
          /\ UNCHANGED <<simVars, cfgVars, last_mongo_log, mongo_sink, lockVars>>

\* the pass whose write to the serial port returns
MainLoopStep(frame, lag, horizon) == MainLoopPass(frame, lag, horizon, FALSE)

\* update_traffic_lights(lane_counts) called with counts of the caller's
\* making (lines 313-344), a dict whose keys follow the order of the lane
\* table; an exception leaves before anything is assigned
UpdateTrafficLights(lane_counts) ==
    /\ program = "app"
    /\ \E e \in {Raised(Ctl, lane_counts, clock)} :
       \E r \in {IF e = "" THEN update_traffic_lights(Ctl, lanes, lane_counts, clock)
                 ELSE [ctl |-> Ctl, lanes |-> lanes]} :
          /\ lanes' = r.lanes
          /\ committed' = r.lanes
          /\ light_state' = r.ctl.light_state
          /\ current_lane_index' = r.ctl.current_lane_index
          /\ pending_lane_index' = r.ctl.pending_lane_index
          /\ last_switch_time' = r.ctl.last_switch_time
          /\ body' = IF e = "" THEN <<>> ELSE <<e>>
    /\ op' = "update_traffic_lights"
    /\ req' = [NoReq EXCEPT !.counts = lane_counts]
    /\ resp' = 0
    /\ UNCHANGED <<clock, vehicle_memory, visited, vehicle_id_counter, simVars, cfgVars,
                   last_mongo_log, mongo_sink, lockVars>>

\* the list that lane_status answers with (lines 528-538)
LaneRows(ls) ==
    [i \in 1..Len(lane_order) |->
        [lane |-> lane_order[i],
         direction |-> IF lane_order[i] \in DOMAIN LANE_DIRECTIONS
                       THEN LANE_DIRECTIONS[lane_order[i]] ELSE "",
         next_lane |-> DictGet(LANE_ROUTES, lane_order[i]),
         signal |-> ls[lane_order[i]].signal,
         count |-> ls[lane_order[i]].count,
         occupied |-> ls[lane_order[i]].occupied]]

\* outgoing.get(lane_id): the target of the lane, <<>> (None) without one
OutgoingOf(cfg, lane_id) ==
    LET hits == {k \in 1..Len(cfg.outgoing) : cfg.outgoing[k][1] = lane_id}
    IN IF hits = {} THEN <<>>
       ELSE cfg.outgoing[CHOOSE k \in hits : \A j \in hits : j <= k][2]

\* the list that simulation_status answers with (lines 545-566)
SimRows(sc) ==
    [k \in 1..Len(intersections) |->
        [intersection |-> intersections[k].id,
         lanes |-> [j \in 1..Len(intersections[k].lanes) |->
            LET lane_id == intersections[k].lanes[j]
                target == OutgoingOf(intersections[k], lane_id)
                tgt == _parse_target_lane(target)
            IN [lane |-> lane_id,
                count |-> SimGet(sc, intersections[k].id, lane_id),
                outgoing_to |-> target,
                downstream_count |-> IF Truthy(tgt[1]) /\ Truthy(tgt[2])
                                     THEN SimGet(sc, tgt[1], tgt[2]) ELSE 0]]]]

\* a lane-status read that runs the tick of the simulation as well
LaneStatusTicking ==
    /\ program = "app"
    /\ Acquirable(lock)
    /\ \E t \in {tick_simulation(simulation_counts, last_simulation_tick, lanes, clock)} :
       /\ simulation_counts' = t.counts
       /\ last_simulation_tick' = t.last
    /\ op' = "lane_status" /\ req' = NoReq /\ resp' = 200
    /\ body' = LaneRows(lanes)
    /\ UNCHANGED <<clock, lanes, vehicle_memory, visited, vehicle_id_counter, ctlVars,
                   cfgVars, last_mongo_log, mongo_sink, lockVars, committed>>

\* GET /lane_status (lines 525-538): reads the lane table
LaneStatus ==
    /\ program = "app"
    /\ Acquirable(lock)
    /\ op' = "lane_status" /\ req' = NoReq /\ resp' = 200
    /\ body' = LaneRows(lanes)
    /\ UNCHANGED <<clock, lanes, vehicle_memory, visited, vehicle_id_counter, ctlVars, simVars,
                   cfgVars, last_mongo_log, mongo_sink, lockVars, committed>>

\* GET /simulation_status (lines 541-566): runs the tick, then reads
SimulationStatus ==
    /\ program = "app"
    /\ Acquirable(lock)
    /\ \E t \in {tick_simulation(simulation_counts, last_simulation_tick, lanes, clock)} :
       /\ simulation_counts' = t.counts
       /\ last_simulation_tick' = t.last
       /\ body' = SimRows(t.counts)
       /\ op' = "simulation_status" /\ req' = NoReq /\ resp' = 200
       /\ UNCHANGED <<clock, lanes, vehicle_memory, visited, vehicle_id_counter, ctlVars, cfgVars,
                      last_mongo_log, mongo_sink, lockVars, committed>>

\* an override whose early return for a rejected request leaves without
\* releasing the lock
SimulationUpdateHolding(payload) ==
    /\ program = "app"
    /\ intersections = <<>> \/ Acquirable(lock)
    /\ \E r \in {simulation_update(simulation_counts, last_simulation_tick, lanes, payload, clock)} :
       /\ simulation_counts' = r.counts
       /\ last_simulation_tick' = r.last
       /\ body' = <<>>
       /\ op' = "simulation_update" /\ req' = payload /\ resp' = r.status
       /\ lock' = IF r.status = 400 /\ intersections # <<>> THEN "simulation_update" ELSE lock
       /\ UNCHANGED <<clock, lanes, vehicle_memory, visited, vehicle_id_counter, ctlVars, cfgVars,
                      last_mongo_log, mongo_sink, step_now, committed>>

\* POST /simulation/update (lines 569-597); the request that finds no
\* configuration is answered before the lock is taken
SimulationUpdate(payload) ==
    /\ program = "app"
    /\ intersections = <<>> \/ Acquirable(lock)
    /\ \E r \in {simulation_update(simulation_counts, last_simulation_tick, lanes, payload, clock)} :
       /\ simulation_counts' = r.counts
       /\ last_simulation_tick' = r.last
       /\ body' = <<>>
       /\ op' = "simulation_update" /\ req' = payload /\ resp' = r.status
       /\ UNCHANGED <<clock, lanes, vehicle_memory, visited, vehicle_id_counter, ctlVars, cfgVars,
                      last_mongo_log, mongo_sink, lockVars, committed>>

-----------------------------------------------------------------------------
(* Specifications                                                          *)

\* the controller driven by the tracker
InitCtl == InitWith({"app", "intersection_final"}, {LanesUnpaired, LanesPaired, LanesThree}, {NetNone}, {FALSE}, CtlLoadDelay)
StepCtl == \E frame \in CtlFrames, lag \in 0..MaxLag : ProcessingStep(frame, lag, CtlHorizon)
StepFinal == \E frame \in FinalFrames, lag \in 0..MaxLag : MainLoopStep(frame, lag, CtlHorizon)
NextCtl == Advance(CtlHorizon) \/ StepCtl \/ StepFinal
SpecCtl == InitCtl /\ [][NextCtl]_vars

\* the simulation with its readers and writers, fed by the tracker
InitSim == InitWith({"app"}, {LanesPaired}, {NetA, NetB}, {FALSE}, 0)
StepSim == \E frame \in SimFrames, lag \in 0..MaxLag : ProcessingStep(frame, lag, SimHorizon)
SimUpdate == \E payload \in Payloads : SimulationUpdate(payload)
NextSim == Advance(SimHorizon) \/ StepSim \/ LaneStatus \/ SimulationStatus \/ SimUpdate
SpecSim == InitSim /\ [][NextSim]_vars

\* the tracker in both programs, on frames with dropped, new and matched
\* detections; the web application logs to MongoDB and serves the
\* simulation status
InitTrack ==
    \/ InitWith({"app"}, {LanesPaired}, {NetA}, {TRUE}, CtlLoadDelay)
    \/ InitWith({"intersection_final"}, {LanesPaired}, {NetNone}, {FALSE}, CtlLoadDelay)
StepTrack ==
    \E frame \in TrackFrames, lag \in 0..MaxLag :
        ProcessingStep(frame, lag, CtlHorizon) \/ MainLoopStep(frame, lag, CtlHorizon)
NextTrack == Advance(CtlHorizon) \/ StepTrack \/ SimulationStatus
SpecTrack == InitTrack /\ [][NextTrack]_vars

\* the tracker over a time longer than the staleness timeout
InitPurge == InitWith({"app", "intersection_final"}, {LanesPaired}, {NetNone}, {FALSE}, 0)
StepPurge ==
    \E frame \in PurgeFrames, lag \in 0..MaxLag :
        ProcessingStep(frame, lag, PurgeHorizon) \/ MainLoopStep(frame, lag, PurgeHorizon)
NextPurge == Advance(PurgeHorizon) \/ StepPurge
SpecPurge == InitPurge /\ [][NextPurge]_vars

\* the processing pass in its two halves beside the HTTP handlers: what a
\* handler can see while a pass is under way
LockFrames == {FrameEmpty, FrameMixed}
LockPayloads == { Single("intersection_1", "lane_1", JInt(3)),
                  Single("intersection_2", "lane_zz", JInt(1)) }
InitLock == InitWith({"app"}, {LanesPaired}, {NetA}, {FALSE}, 0)
LeaveLock == \E frame \in LockFrames : StepLeave(frame)
UpdateLock == \E payload \in LockPayloads : SimulationUpdate(payload)
NextLock == Advance(SimHorizon) \/ StepEnter \/ LeaveLock \/ LaneStatus
               \/ SimulationStatus \/ UpdateLock
SpecLock == InitLock /\ [][NextLock]_vars

\* the lock over its holders: the pass in its two halves, which ends with
\* the inference returning or raising, and the handlers, among them an
\* override that is rejected and one whose int() raises.  The thread that
\* holds the lock goes on running, so the inference under way ends
\* (HolderEnds, weakly fair); a lane-status read that waits is handed the
\* lock at one of the moments when it is free (strongly fair)
ReleasePayloads == { Single("intersection_1", "lane_1", JInt(3)),
                     Single("intersection_2", "lane_zz", JInt(1)),
                     Single("intersection_2", "lane_a", JText) }
InitRelease == InitWith({"app"}, {LanesPaired}, {NetA}, {FALSE}, 0)
UpdateRelease == \E payload \in ReleasePayloads : SimulationUpdate(payload)
HolderEnds == StepLeave(FrameEmpty) \/ StepRaise
NextRelease == Advance(SimHorizon) \/ StepEnter \/ LeaveLock \/ StepRaise \/ LaneStatus
                  \/ SimulationStatus \/ UpdateRelease
SpecRelease == InitRelease /\ [][NextRelease]_vars /\ WF_vars(HolderEnds) /\ SF_vars(LaneStatus)

\* the program started without a lane file and without an intersection file
InitEmpty == InitWith({"app"}, {<<>>}, {NetNone}, {FALSE, TRUE}, 0)
StepEmpty == \E frame \in SimFrames, lag \in 0..MaxLag : ProcessingStep(frame, lag, CtlHorizon)
NextEmpty == Advance(CtlHorizon) \/ StepEmpty \/ LaneStatus \/ SimulationStatus \/ SimUpdate
SpecEmpty == InitEmpty /\ [][NextEmpty]_vars

\* the controller called on its own with counts for some of the lanes
CallCounts == {0, 3}
PartialCounts == UNION {[S -> CallCounts] : S \in SUBSET DOMAIN lanes}
InitCall == InitWith({"app"}, {LanesUnpaired, LanesPaired, LanesThree}, {NetNone}, {FALSE}, CtlLoadDelay)
CallCtl == \E lane_counts \in PartialCounts : UpdateTrafficLights(lane_counts)
NextCall == Advance(CtlHorizon) \/ CallCtl
SpecCall == InitCall /\ [][NextCall]_vars

\* passes over lanes that overlap, one detection a pass
InitLane == InitWith({"app"}, {LanesOverlap, LanesOverlapRev}, {NetNone}, {FALSE}, 0)
StepLane == \E frame \in LaneFrames : ProcessingStep(frame, 0, LaneHorizon)
NextLane == Advance(LaneHorizon) \/ StepLane
SpecLane == InitLane /\ [][NextLane]_vars

\* the loop of passes on frames that keep lane_2 ahead, two or five vehicles
\* in lane_2 and none elsewhere: every pass is followed by the next, at the
\* same time or later, and time goes on between two passes ("while True",
\* src/app.py line 367, src/intersection_final.py line 242)
LiveFrames == {FrameNear, FrameLane2x5}
InitLive == InitWith({"app", "intersection_final"}, {LanesPaired, LanesThree}, {NetNone}, {FALSE}, 0)
TickLive == op = "step" /\ Advance(LiveHorizon)
StepLive ==
    \E frame \in LiveFrames, lag \in 0..MaxLag :
        ProcessingStep(frame, lag, LiveHorizon) \/ MainLoopStep(frame, lag, LiveHorizon)
NextLive == TickLive \/ StepLive
\* weak fairness of the pass, written out on the history variable: a pass is
\* the only step that leaves op = "step", and a pass that changes the state
\* is possible as long as the clock is below the horizon
PassesGoOn == []<>(clock = Epoch + LiveHorizon) \/ []<><<op' = "step">>_vars
SpecLive == InitLive /\ [][NextLive]_vars /\ WF_vars(TickLive) /\ PassesGoOn

\* passes of several streams of the web application: a pass may have waited
\* for the lock as long as the inference of another pass takes
InitWait == InitWith({"app"}, {LanesPaired}, {NetNone}, {FALSE}, 0)
StepWait == \E frame \in WaitFrames, wait \in 0..MaxLag : WaitingPass(frame, wait)
NextWait == Advance(PurgeHorizon) \/ StepWait
SpecWait == InitWait /\ [][NextWait]_vars

\* a vehicle that moves inside one lane, in both programs
InitMove == InitWith({"app", "intersection_final"}, {LanesPaired}, {NetNone}, {FALSE}, 0)
StepMove ==
    \E frame \in MoveFrames :
        ProcessingStep(frame, 0, LaneHorizon) \/ MainLoopStep(frame, 0, LaneHorizon)
NextMove == Advance(LaneHorizon) \/ StepMove
SpecMove == InitMove /\ [][NextMove]_vars

\* a vehicle that goes from lane to lane around the point where four lanes
\* meet, in both programs; lane_history grows up to MaxHistory entries
InitCross == InitWith({"app", "intersection_final"}, {LanesCross}, {NetNone}, {FALSE}, 0)
HistoryBelow(n) == \A vid \in DOMAIN vehicle_memory : Len(vehicle_memory[vid].lane_history) < n
StepCross ==
    \E frame \in CrossFrames, lag \in 0..MaxLag :
        \/ ProcessingStep(frame, lag, LaneHorizon)
        \/ program = "intersection_final" /\ HistoryBelow(MaxHistory)
              /\ MainLoopStep(frame, lag, LaneHorizon)
NextCross == Advance(LaneHorizon) \/ StepCross
SpecCross == InitCross /\ [][NextCross]_vars

\* passes whose writes to the persistence sink or to the serial port may
\* raise, the serial port open or not
EmitFrames == {FrameEmpty, FrameLane2x5}
InitEmit ==
    \/ InitDevices({"app"}, {LanesPaired}, {NetA}, {TRUE}, CtlLoadDelay) /\ ser = FALSE
    \/ InitDevices({"intersection_final"}, {LanesPaired}, {NetNone}, {FALSE}, CtlLoadDelay)
          /\ ser \in BOOLEAN
StepEmit ==
    \E frame \in EmitFrames, lag \in 0..MaxLag :
        \/ \E fail \in 0..2 : ProcessingPass(frame, lag, CtlHorizon, fail)
        \/ \E fail \in BOOLEAN : MainLoopPass(frame, lag, CtlHorizon, fail)
NextEmit == Advance(CtlHorizon) \/ StepEmit
SpecEmit == InitEmit /\ [][NextEmit]_vars

Init == InitSim
Next == NextSim
Spec == SpecSim

-----------------------------------------------------------------------------
(* Properties of the signal controller, checked under SpecCtl              *)

ActiveLane == lane_order[current_lane_index + 1]
NonRedLanes == {l \in DOMAIN lanes : lanes[l].signal \in {"GREEN", "YELLOW"}}
PartnerOf(l) == IF program = "app" /\ l \in DOMAIN PAIRED_LANES THEN PAIRED_LANES[l] ELSE "None"

\* C1: with a non-empty lane configuration, in every reachable state (the
\* state before the first processing step included) the lanes that show
\* GREEN or YELLOW are exactly the active lane, or the active lane and its
\* configured partner, all in the same colour, and every other lane is RED.
C1_OneGroupNonRed ==
    lane_order # <<>> =>
        /\ \/ NonRedLanes = {ActiveLane}
           \/ NonRedLanes = {ActiveLane, PartnerOf(ActiveLane)}
        /\ \A l \in NonRedLanes : lanes[l].signal = lanes[ActiveLane].signal
        /\ \A l \in DOMAIN lanes \ NonRedLanes : lanes[l].signal = "RED"

\* the counts the processing step of a transition has computed, and the time
\* its controller has read
GreenElapsed == clock' - last_switch_time >= 5 * TicksPerSec
YellowElapsed == clock' - last_switch_time >= 2 * TicksPerSec
Beaten == \E l \in DOMAIN lanes' : lanes'[l].count - lanes'[ActiveLane].count >= 2
\* 0-based index of the first lane, in lane order, that holds the largest count
ArgMaxIndex ==
    CHOOSE i \in 0..(Len(lane_order) - 1) :
        /\ \A j \in 0..(Len(lane_order) - 1) :
               lanes'[lane_order[i + 1]].count >= lanes'[lane_order[j + 1]].count
        /\ \A j \in 0..(i - 1) :
               lanes'[lane_order[j + 1]].count < lanes'[lane_order[i + 1]].count

\* C2: the controller leaves GREEN only in a step at which GREEN_TIME has
\* elapsed since the last transition and some lane's count exceeds the active
\* lane's by at least COUNT_SWITCH_DELTA; in every other step taken in GREEN
\* the phase, the active lane, the pending lane and the timestamp stay as
\* they are.
C2_GreenHeld ==
    [][ (light_state = "GREEN" /\ ~(GreenElapsed /\ Beaten)) => UNCHANGED ctlVars ]_vars

\* a step found GREEN due with another lane ahead by exactly one, and held
C2_Witness ==
    /\ op = "step" /\ light_state = "GREEN" /\ last_switch_time = Epoch
    /\ clock - last_switch_time >= GREEN_TIME
    /\ \E l \in DOMAIN lanes : lanes[l].count - lanes[ActiveLane].count = 1
    /\ \A l \in DOMAIN lanes : lanes[l].count - lanes[ActiveLane].count < 2

\* C3: a step taken in GREEN when GREEN_TIME has elapsed and the argmax lane
\* is ahead of the active lane by at least COUNT_SWITCH_DELTA turns the phase
\* YELLOW, makes the argmax lane pending, keeps the active lane and resets the
\* timestamp to the time of the step.
C3_SwitchToYellow ==
    [][ (op' = "step" /\ light_state = "GREEN" /\ GreenElapsed /\ Beaten) =>
            /\ light_state' = "YELLOW"
            /\ pending_lane_index' = <<ArgMaxIndex>>
            /\ current_lane_index' = current_lane_index
            /\ last_switch_time' = clock' ]_vars

\* a step has just switched to YELLOW with two lanes tied for the maximum
C3_Witness ==
    /\ op = "step" /\ light_state = "YELLOW" /\ last_switch_time = clock
    /\ Len(lane_order) = 3 /\ pending_lane_index = <<1>>
    /\ lanes["lane_2"].count = 5 /\ lanes["lane_3"].count = 5 /\ lanes["lane_1"].count = 0

\* C4: a step taken in YELLOW when YELLOW_TIME has elapsed turns the phase
\* GREEN whatever the counts, makes the pending lane (unchanged since YELLOW
\* began) the active lane and clears pending; YELLOW is never left earlier.
C4_YellowToGreen ==
    [][ /\ (op' = "step" /\ light_state = "YELLOW" /\ YellowElapsed) =>
               /\ light_state' = "GREEN"
               /\ pending_lane_index # <<>>
               /\ current_lane_index' = pending_lane_index[1]
               /\ pending_lane_index' = <<>>
        /\ (light_state = "YELLOW" /\ light_state' # "YELLOW") => YellowElapsed
        /\ (light_state = "YELLOW" /\ light_state' = "YELLOW") =>
               pending_lane_index' = pending_lane_index ]_vars

\* a step has just ended YELLOW exactly YELLOW_TIME after it began, with the
\* new active lane holding no vehicle
C4_Witness ==
    /\ op = "step" /\ light_state = "GREEN" /\ current_lane_index # 0
    /\ last_switch_time = clock /\ pending_lane_index = <<>>
    /\ lanes[ActiveLane].count = 0
    /\ clock = Epoch + 5 * TicksPerSec + 2 * TicksPerSec

TwoLanes == Len(lane_order) = 2
LaneA == lane_order[1]
LaneB == lane_order[2]

\* the two legs of the end-to-end scenario, with the signal lane A is to
\* report at the end
C5_Start == TwoLanes => light_state = "GREEN" /\ current_lane_index = 0
C5_Legs(signalA) ==
    TwoLanes /\ op' = "step" =>
        /\ (light_state = "GREEN" /\ current_lane_index = 0 /\ GreenElapsed
            /\ lanes'[LaneB].count = 5 /\ lanes'[LaneA].count = 0)
               => light_state' = "YELLOW" /\ pending_lane_index' = <<1>>
        /\ (light_state = "YELLOW" /\ pending_lane_index = <<1>> /\ YellowElapsed)
               => /\ light_state' = "GREEN" /\ current_lane_index' = 1
                  /\ lanes'[LaneB].signal = "GREEN"
                  /\ lanes'[LaneA].signal = signalA

-----------------------------------------------------------------------------
(* Properties of the network simulation, checked under SpecSim             *)

\* the tick gate as the claims state it, on the clock the handler reads
WithinTickInterval == clock - last_simulation_tick < 1 * TicksPerSec
TickFired == last_simulation_tick' # last_simulation_tick

\* the counts on which the tick of a transition is invoked: those the
\* override has written, in an override call
BeforeTick ==
    IF op' = "simulation_update" THEN ApplyOverride(simulation_counts, req').counts
    ELSE simulation_counts

\* C6: a tick invoked less than SIM_TICK_SECONDS after the last firing tick
\* changes no simulated count and leaves the last-tick timestamp alone,
\* whether a status read or an override invokes it; the timestamp moves only
\* when at least SIM_TICK_SECONDS have elapsed, and then to the current time.
C6_TickGate ==
    [][ /\ WithinTickInterval =>
               /\ last_simulation_tick' = last_simulation_tick
               /\ simulation_counts' = BeforeTick
        /\ TickFired => ~WithinTickInterval /\ last_simulation_tick' = clock ]_vars

\* a status read inside the interval, on counts that are not all zero
C6_Witness ==
    /\ op = "simulation_status" /\ clock - last_simulation_tick = 1
    /\ \E i \in DOMAIN simulation_counts : \E l \in DOMAIN simulation_counts[i] :
           simulation_counts[i][l] > 0

\* the handoff amount as the claim gives it
HandoffFormula(c) ==
    IF c = 0 THEN 0
    ELSE Min(c, Max(SIM_MIN_HANDOFF, (c * SIM_HANDOFF_NUM) \div SIM_HANDOFF_DEN))

\* the counts a tick can find in a source lane of the current state
SourceCounts ==
    UNION {{simulation_counts[i][l] : l \in DOMAIN simulation_counts[i]} :
               i \in DOMAIN simulation_counts}
    \cup {lanes[l].count : l \in DOMAIN lanes}

\* C7: for every source count c >= 0 the handoff amount is 0 when c = 0 and
\* otherwise min(c, max(minHandoff, floor(c * handoffRatio))); it never
\* exceeds c, and with ratio 0.5 and minimum 1: 10 -> 5, 3 -> 1, 1 -> 1, 0 -> 0.
C7_HandoffAmount ==
    /\ \A c \in (0..HandoffRange) \cup SourceCounts :
           /\ _handoff_amount(c) = HandoffFormula(c)
           /\ _handoff_amount(c) <= c
    /\ _handoff_amount(10) = 5 /\ _handoff_amount(3) = 1
    /\ _handoff_amount(1) = 1 /\ _handoff_amount(0) = 0

\* a firing tick has handed 2 of the 4 vehicles of lane_9 on to lane_a
C7_Witness ==
    /\ intersections = NetA /\ last_simulation_tick = clock
    /\ req = Single("intersection_1", "lane_9", JFloat(9, 2)) /\ resp = 200
    /\ simulation_counts["intersection_1"]["lane_9"] = 2
    /\ simulation_counts["intersection_2"]["lane_a"] = 2

\* the sum of f over the set S
RECURSIVE SumOver(_, _)
SumOver(f, S) ==
    IF S = {} THEN 0
    ELSE LET x == CHOOSE y \in S : TRUE IN f[x] + SumOver(f, S \ {x})

\* all simulated vehicles
SimTotal(sc) ==
    SumOver([i \in DOMAIN sc |-> SumOver(sc[i], DOMAIN sc[i])], DOMAIN sc)

\* what the mirror copy and the reset leave of the counts sc
AfterReset(sc) ==
    [i \in DOMAIN sc |-> [l \in DOMAIN sc[i] |->
        IF i # "intersection_1" THEN 0
        ELSE IF l \in DOMAIN lanes THEN lanes[l].count ELSE sc[i][l]]]

\* the counts a firing tick leaves in NetA, route by route
ExpectedNetA(b) ==
    LET m == b["intersection_1"]
    IN [b EXCEPT
          !["intersection_1"]["lane_1"] = m["lane_1"] - HandoffFormula(m["lane_1"]),
          !["intersection_1"]["lane_2"] = m["lane_2"] - HandoffFormula(m["lane_2"]),
          !["intersection_1"]["lane_9"] =
              m["lane_9"] - HandoffFormula(m["lane_9"]) + HandoffFormula(m["lane_2"]),
          !["intersection_2"]["lane_a"] =
              HandoffFormula(m["lane_1"]) + HandoffFormula(m["lane_9"])]

\* C8: in every firing tick each applied transfer takes from its source what
\* it gives to its destination, so the total over all lanes is the total the
\* mirror copy and the reset left; amounts into a lane with several inbound
\* routes add up (NetA); a transfer with an unknown end changes neither side
\* (NetB, where no route has both ends known).
C8_Conservation ==
    [][ TickFired =>
          /\ SimTotal(simulation_counts') = SimTotal(AfterReset(BeforeTick))
          /\ intersections = NetA => simulation_counts' = ExpectedNetA(AfterReset(BeforeTick))
          /\ intersections = NetB => simulation_counts' = AfterReset(BeforeTick) ]_vars

\* a firing tick has added the amounts of two routes into lane_a
C8_Witness ==
    /\ op = "simulation_status" /\ intersections = NetA /\ last_simulation_tick = clock
    /\ simulation_counts["intersection_2"]["lane_a"] = 3
    /\ simulation_counts["intersection_1"]["lane_9"] = 3

\* C9: in every reachable state every simulated count and every live lane
\* count is a non-negative integer.
C9_NonNegative ==
    /\ \A i \in DOMAIN simulation_counts : \A l \in DOMAIN simulation_counts[i] :
           simulation_counts[i][l] \in Nat
    /\ \A l \in DOMAIN lanes : lanes[l].count \in Nat

\* an override with a negative count has been accepted
C9_Witness ==
    /\ op = "simulation_update" /\ resp = 200
    /\ req = Single("intersection_1", "lane_9", JInt(-4))

\* the (intersection, lane, count) triples of a request body
RECURSIVE BulkEntries(_)
BulkEntries(updates) ==
    IF updates = <<>> THEN {}
    ELSE {<<Head(updates).id, Head(updates).lanes[k][1], Head(updates).lanes[k][2]>> :
              k \in 1..Len(Head(updates).lanes)}
         \cup BulkEntries(Tail(updates))
OverrideEntries(payload) ==
    IF payload.counts # <<>> THEN BulkEntries(payload.counts)
    ELSE {<<payload.intersection, payload.lane, payload.count>>}

\* max(0, c) for a JSON number c, fractions cut off toward zero
ClampedValue(c) == Max(0, IF c.n >= 0 THEN c.n \div c.d ELSE -((-c.n) \div c.d))

\* every known lane named by the request holds the clamped count in sc
OverrideHolds(payload, sc) ==
    \A e \in OverrideEntries(payload) :
        (e[1] \in DOMAIN sc /\ e[2] \in DOMAIN sc[e[1]]) => sc[e[1]][e[2]] = ClampedValue(e[3])

\* C10 as stated: when an accepted override returns, the lane it names holds
\* max(0, c), in the mirror and in every other intersection.
C10_OverrideHolds ==
    (op = "simulation_update" /\ resp = 200) => OverrideHolds(req, simulation_counts)

\* C10 as amended: it holds max(0, c) provided the tick that the override
\* call runs does not fire.
C10_OverrideHoldsUnlessTick ==
    [][ (op' = "simulation_update" /\ resp' = 200 /\ WithinTickInterval) =>
            OverrideHolds(req', simulation_counts') ]_vars

\* an accepted override of a lane outside the mirror has returned, its count in place
C10_Witness ==
    /\ op = "simulation_update" /\ resp = 200
    /\ req = Single("intersection_2", "lane_a", JInt(5))
    /\ simulation_counts["intersection_2"]["lane_a"] = 5

\* C11: an override request that is not accepted (any answer other than
\* 200: the configuration is not loaded, the target is unknown, the count is
\* missing or is not a number, in the single or the bulk form) leaves every
\* simulated count and the last-tick timestamp as they were.
C11_RejectedChangesNothing ==
    [][ (op' = "simulation_update" /\ resp' # 200) => UNCHANGED simVars ]_vars

\* the key set of the simulated count table is the one the configuration gave
KeysAsLoaded ==
    /\ DOMAIN simulation_counts = {intersections[k].id : k \in 1..Len(intersections)}
    /\ \A k \in 1..Len(intersections) :
           DOMAIN simulation_counts[intersections[k].id] =
               {intersections[k].lanes[j] : j \in 1..Len(intersections[k].lanes)}

KnownEntry(e) == e[1] \in DOMAIN simulation_counts /\ e[2] \in DOMAIN simulation_counts[e[1]]

\* a bulk body with an unknown id in it, whose known entries carry numbers
BulkWithUnknown(payload) ==
    /\ payload.counts # <<>>
    /\ \E e \in OverrideEntries(payload) : ~KnownEntry(e)
    /\ \A e \in OverrideEntries(payload) : KnownEntry(e) => e[3].kind \in {"int", "float"}

\* the lanes of sc2 that the body does not name hold what they hold in sc1
OthersKept(payload, sc1, sc2) ==
    \A i \in DOMAIN sc1 : \A l \in DOMAIN sc1[i] :
        (\A e \in OverrideEntries(payload) : <<e[1], e[2]>> # <<i, l>>) => sc2[i][l] = sc1[i][l]

\* C12: a bulk override that contains unknown intersection or lane ids is
\* accepted; its known pairs are applied and nothing else is written (seen
\* on return whenever the tick of the call does not fire); the key set of
\* the simulated count table never changes.
C12_BulkSkipsUnknown ==
    /\ []KeysAsLoaded
    /\ [][ (op' = "simulation_update" /\ BulkWithUnknown(req')) =>
              /\ resp' = 200
              /\ WithinTickInterval =>
                     /\ OverrideHolds(req', simulation_counts')
                     /\ OthersKept(req', simulation_counts, simulation_counts') ]_vars

\* the bulk body with two unknown ids has been applied to its known pairs
C12_Witness ==
    /\ op = "simulation_update" /\ resp = 200 /\ BulkWithUnknown(req)
    /\ last_simulation_tick < clock
    /\ simulation_counts["intersection_1"]["lane_2"] = 6
    /\ simulation_counts["intersection_2"]["lane_a"] = 0

-----------------------------------------------------------------------------
(* Properties of the tracker, checked under SpecTrack and SpecPurge        *)

\* detections tried on the registry of every reachable state: between the two
\* cars of FrameNear, exactly 50 from the second of them, beside the first,
\* and in the other lane
ProbeBoxes ==
    {Box("car", 225, 25), Box("bus", 280, 90), Box("truck", 260, 10), Box("car", 50, 50)}

\* the tracker state of the current state, and one detection applied to it
TrackerNow == [vm |-> vehicle_memory, next |-> vehicle_id_counter, lanes |-> lanes]
Tracked(box) ==
    IF program = "app" THEN TrackDetection(TrackerNow, box, clock)
    ELSE TrackDetectionFinal(TrackerNow, box, clock)

SquaredDistance(vid, c) ==
    (vehicle_memory[vid].pos[1] - c[1]) * (vehicle_memory[vid].pos[1] - c[1])
    + (vehicle_memory[vid].pos[2] - c[2]) * (vehicle_memory[vid].pos[2] - c[2])
WithinGate(c) == {k \in DOMAIN vehicle_memory : SquaredDistance(k, c) < 50 * 50}

\* C13: an accepted detection updates a tracked vehicle that is nearest to its
\* centroid among those strictly less than 50 away, under that vehicle's id,
\* and touches no other vehicle; when no vehicle is that near it creates a
\* vehicle under an id that was never used, and the id counter moves on.
C13_NearestWithinGate ==
    \A box \in ProbeBoxes :
        LET c == Centroid(box)
            out == Tracked(box)
        IN IF WithinGate(c) = {}
           THEN /\ vehicle_id_counter \notin DOMAIN vehicle_memory
                /\ DOMAIN out.vm = DOMAIN vehicle_memory \cup {vehicle_id_counter}
                /\ out.next = vehicle_id_counter + 1
                /\ out.vm[vehicle_id_counter].pos = c
                /\ \A j \in DOMAIN vehicle_memory : out.vm[j] = vehicle_memory[j]
           ELSE /\ DOMAIN out.vm = DOMAIN vehicle_memory
                /\ out.next = vehicle_id_counter
                /\ \E k \in WithinGate(c) :
                       /\ \A j \in WithinGate(c) : SquaredDistance(k, c) <= SquaredDistance(j, c)
                       /\ out.vm[k].pos = c /\ out.vm[k].time = clock
                       /\ \A j \in DOMAIN vehicle_memory \ {k} : out.vm[j] = vehicle_memory[j]

\* a step has moved the first car of FrameNear to the detection of
\* FrameShift, the second car, farther from it but inside the gate, untouched
C13_Witness ==
    /\ op = "step"
    /\ \E k, j \in DOMAIN vehicle_memory :
           /\ k < j
           /\ vehicle_memory[k].pos = <<225, 25>> /\ vehicle_memory[k].time = clock
           /\ vehicle_memory[k].direction = "DOWN"
           /\ vehicle_memory[j].pos = <<250, 50>>

\* age of a vehicle record at the time the step that is being taken read on entry
AgeAtStep(v) == clock - v.time

\* C14: after a processing step no vehicle whose last update was more than
\* 5 s before the step is in the registry, so none is counted in a lane; the
\* purge of the step removes no vehicle whose age is within the 5 s.
C14_StalePurged ==
    [][ op' = "step" =>
          /\ \A vid \in DOMAIN vehicle_memory' :
                 AgeAtStep(vehicle_memory'[vid]) <= 5 * TicksPerSec
          /\ \A vid \in DOMAIN vehicle_memory :
                 AgeAtStep(vehicle_memory[vid]) <= 5 * TicksPerSec
                     => vid \in DOMAIN vehicle_memory'
          /\ \A l \in DOMAIN lanes' :
                 lanes'[l].count <= Cardinality({vid \in DOMAIN vehicle_memory' :
                                                    vehicle_memory'[vid].lane = l}) ]_vars

\* a step has purged the only vehicle there was, more than 5 s after it was created
C14_Witness ==
    /\ op = "step" /\ vehicle_id_counter = 1 /\ vehicle_memory = <<>>
    /\ clock > Epoch + 5 * TicksPerSec

\* the vehicles left by the step being taken whose lane is l and whose last
\* update is at most 1.5 s older than the step
RecentIn(l) ==
    Cardinality({vid \in DOMAIN vehicle_memory' :
                    /\ vehicle_memory'[vid].lane = l
                    /\ 2 * AgeAtStep(vehicle_memory'[vid]) <= 3 * TicksPerSec})

\* C15: after a processing step the count of a lane is the number of tracked
\* vehicles of that lane updated at most 1.5 s before the step; a vehicle
\* older than that stays in the registry uncounted; the controller decides
\* on this count (it leaves GREEN exactly when the green time has run and a
\* lane is ahead of the active one by 2 in it), and a firing tick copies it
\* into the mirror intersection.
C15_RecentCount ==
    [][ /\ op' = "step" =>
              /\ \A l \in DOMAIN lanes' : lanes'[l].count = RecentIn(l)
              /\ light_state = "GREEN" =>
                    ((light_state' = "YELLOW") <=>
                        /\ GreenElapsed
                        /\ \E l \in DOMAIN lanes' : RecentIn(l) - RecentIn(ActiveLane) >= 2)
        /\ (op' = "simulation_status" /\ TickFired /\ intersections = NetA) =>
              simulation_counts' = ExpectedNetA(AfterReset(simulation_counts)) ]_vars

\* a step has left a vehicle in the registry that is too old to be counted
C15_Witness ==
    /\ op = "step" /\ vehicle_memory # <<>>
    /\ \A l \in DOMAIN lanes : lanes[l].count = 0
    /\ \A vid \in DOMAIN vehicle_memory : 2 * (clock - vehicle_memory[vid].time) > 3 * TicksPerSec


-----------------------------------------------------------------------------
(* C16: processing passes and the three HTTP handlers exclude each other *)

HandlerOps == {"lane_status", "simulation_status", "simulation_update"}

\* what a handler or the pass leaves alone besides the history variables
TrafficVars == <<lanes, vehicle_memory, vehicle_id_counter, ctlVars, simVars,
                 last_mongo_log, mongo_sink>>

\* the answer has one row per lane, in the order of the lane table, with the
\* signal, the count and the occupied flag of the lane table ls
RowsOf(rows, ls) ==
    /\ Len(rows) = Len(lane_order)
    /\ {rows[i].lane : i \in 1..Len(rows)} = DOMAIN ls
    /\ \A i \in 1..Len(rows) :
          /\ rows[i].lane = lane_order[i]
          /\ rows[i].signal = ls[rows[i].lane].signal
          /\ rows[i].count = ls[rows[i].lane].count
          /\ rows[i].occupied = ls[rows[i].lane].occupied

-----------------------------------------------------------------------------
(* C17: the program without lanes and without intersections *)

CoreVars == <<lanes, vehicle_memory, vehicle_id_counter, ctlVars, simVars>>

\* C17: started with no lane and no intersection, no operation ends in an
\* error and none changes the lanes, the vehicles, the controller (phase,
\* active index, pending index, switch time) or the simulated counts and
\* their tick time: the pass leaves an empty lane table, the tick does
\* nothing, and both status reads answer with an empty list.  Without a
\* persistence sink nothing but the clock moves.
C17_EmptyConfigurationInert ==
    /\ [](resp # 500)
    /\ [](DOMAIN lanes = {} /\ DOMAIN simulation_counts = {})
    /\ [](op \in {"lane_status", "simulation_status"} => (resp = 200 /\ body = <<>>))
    /\ [][ /\ UNCHANGED CoreVars
           /\ ~mongo_db => UNCHANGED <<last_mongo_log, mongo_sink>> ]_vars

\* a pass has run without lanes at a time when a controller with lanes would
\* have been due to look at the counts
C17_Witness ==
    /\ raw_lanes = <<>> /\ intersections = <<>>
    /\ op = "step"
    /\ light_state = "GREEN"
    /\ clock - last_switch_time >= GREEN_TIME


-----------------------------------------------------------------------------
(* C18: the controller called with counts that lack a lane *)

\* the counts with a zero for every lane that has no entry
ZeroFilled(lane_counts) ==
    [l \in DOMAIN lanes |-> IF l \in DOMAIN lane_counts THEN lane_counts[l] ELSE 0]

\* C18: a call of the controller with counts that lack the entry of a lane
\* returns, and leaves the controller and the signals exactly as the call
\* with a zero in the place of every missing entry would.
C18_MissingCountIsZero ==
    [][ op' = "update_traffic_lights" =>
           LET r == update_traffic_lights(Ctl, lanes, ZeroFilled(req'.counts), clock)
           IN /\ body' = <<>>
              /\ Ctl' = r.ctl
              /\ lanes' = r.lanes ]_vars


-----------------------------------------------------------------------------
(* C19: detections outside every lane *)

\* the frame holds detections and the centroid of each lies in no lane polygon
AllMiss(boxes) ==
    /\ boxes # <<>>
    /\ \A i \in 1..Len(boxes), k \in 1..Len(raw_lanes) :
          ~PointPolygonTest(raw_lanes[k].polygon, Centroid(boxes[i]))

\* what the pass that starts now and ends at t leaves when the detector
\* reports nothing: the registry purged, the counts of the recent vehicles,
\* and the controller and the logger run on them
EmptyPass(t) ==
    LET vm == cleanup_old_vehicles(vehicle_memory, clock, STALE_TIMEOUT)
        reset == IF program = "app" THEN ResetLanes(lanes, clock)
                 ELSE ResetLanesFinal(lanes, clock)
        lane_counts == CountLanes(vm, reset, clock)
        counted == [l \in DOMAIN reset |-> [reset[l] EXCEPT !.count = lane_counts[l]]]
        r == IF program = "app" THEN update_traffic_lights(Ctl, counted, lane_counts, t)
             ELSE update_traffic_lights_final(Ctl, counted, lane_counts, t, FALSE)
    IN [vm |-> vm, lanes |-> r.lanes, ctl |-> r.ctl,
        log |-> IF program = "app"
                THEN save_to_mongodb(last_mongo_log, mongo_sink, r.lanes, t, 0)
                ELSE [last |-> last_mongo_log, sink |-> mongo_sink]]

\* C19: a pass whose detections all lie outside every lane creates no
\* vehicle, changes no tracked vehicle, uses no id and leaves the last-seen
\* time of every lane alone and sets no occupied flag, and it ends in the
\* state in which a pass at the same time without detections ends.
C19_OutsideDiscarded ==
    [][ (op' = "step" /\ AllMiss(req'.boxes)) =>
           LET e == EmptyPass(clock')
           IN /\ vehicle_id_counter' = vehicle_id_counter
              /\ DOMAIN vehicle_memory' \subseteq DOMAIN vehicle_memory
              /\ \A vid \in DOMAIN vehicle_memory' :
                    vehicle_memory'[vid] = vehicle_memory[vid]
              /\ \A l \in DOMAIN lanes :
                    /\ lanes'[l].last_seen = lanes[l].last_seen
                    /\ lanes'[l].occupied => lanes[l].occupied
              /\ vehicle_memory' = e.vm
              /\ lanes' = e.lanes
              /\ Ctl' = e.ctl
              /\ last_mongo_log' = e.log.last
              /\ mongo_sink' = e.log.sink
              /\ UNCHANGED simVars ]_vars

\* a pass whose detections all missed has ended with a vehicle in the
\* registry and a lane still occupied
C19_Witness ==
    /\ op = "step"
    /\ AllMiss(req.boxes)
    /\ vehicle_memory # <<>>
    /\ \E l \in DOMAIN lanes : lanes[l].occupied


-----------------------------------------------------------------------------
(* C20: the logging interval of the persistence sink *)

\* what the pass of src/app.py on the detections boxes, started now and ended
\* at t, leaves when save_to_mongodb is not called at its end
PassWithoutLog(boxes, t) ==
    LET st == TrackFrame([vm |-> cleanup_old_vehicles(vehicle_memory, clock, STALE_TIMEOUT),
                          next |-> vehicle_id_counter,
                          lanes |-> ResetLanes(lanes, clock)], boxes, clock)
        lane_counts == CountLanes(st.vm, st.lanes, clock)
        counted == [l \in DOMAIN st.lanes |-> [st.lanes[l] EXCEPT !.count = lane_counts[l]]]
        r == update_traffic_lights(Ctl, counted, lane_counts, t)
    IN [vm |-> st.vm, next |-> st.next, lanes |-> r.lanes, ctl |-> r.ctl]

\* C20: the call that records a snapshot does nothing unless at least
\* MONGO_LOG_INTERVAL (2 s) has passed since the recording before it: the
\* time of the last recording and the snapshot in the sink change only
\* together, only in a pass, only to the time of the call and to the lane
\* table that the pass leaves, and only that long after the last recording;
\* without a sink neither changes.  What the pass leaves in the lanes, the
\* registry, the controller and the simulated counts is what it leaves
\* without the call.
C20_LoggingInterval ==
    [][ /\ (last_mongo_log' # last_mongo_log \/ mongo_sink' # mongo_sink) =>
              /\ op' = "step" /\ mongo_db
              /\ last_mongo_log' = clock'
              /\ clock' - last_mongo_log >= 2 * TicksPerSec
              /\ mongo_sink' # <<>>
              /\ mongo_sink'.timestamp = clock'
              /\ mongo_sink # <<>> => mongo_sink'.timestamp - mongo_sink.timestamp >= 2 * TicksPerSec
              /\ \A i \in 1..Len(lane_order) :
                    /\ mongo_sink'.lanes[i].lane = lane_order[i]
                    /\ mongo_sink'.lanes[i].count = lanes'[lane_order[i]].count
                    /\ mongo_sink'.lanes[i].signal = lanes'[lane_order[i]].signal
                    /\ mongo_sink'.lanes[i].occupied = lanes'[lane_order[i]].occupied
        /\ (op' = "step" /\ mongo_db /\ clock' - last_mongo_log >= 2 * TicksPerSec) =>
              last_mongo_log' = clock'
        /\ (op' = "step" /\ program = "app") =>
              \E e \in {PassWithoutLog(req'.boxes, clock')} :
                 /\ vehicle_memory' = e.vm
                 /\ vehicle_id_counter' = e.next
                 /\ lanes' = e.lanes
                 /\ Ctl' = e.ctl
                 /\ UNCHANGED simVars
      ]_vars

\* a second snapshot has been recorded, two seconds or more after the first
C20_Witness ==
    /\ op = "step"
    /\ mongo_db
    /\ mongo_sink # <<>>
    /\ last_mongo_log = clock
    /\ mongo_sink.timestamp >= Epoch + CtlLoadDelay + 2 * TicksPerSec


-----------------------------------------------------------------------------
(* C21: the lane of a centroid *)

\* the rectangle with the corners of poly holds the point, its edges included
\* (the lanes of the lane files used here are rectangles)
InRectangle(poly, p) ==
    /\ \E i \in 1..Len(poly) : poly[i][1] <= p[1]
    /\ \E i \in 1..Len(poly) : poly[i][1] >= p[1]
    /\ \E i \in 1..Len(poly) : poly[i][2] <= p[2]
    /\ \E i \in 1..Len(poly) : poly[i][2] >= p[2]

\* the positions in the lane table of the lanes that hold the point
Holders(p) == {i \in 1..Len(raw_lanes) : InRectangle(raw_lanes[i].polygon, p)}

\* the vehicles that the pass which has just ended saw at p
SeenAt(p) == {vid \in DOMAIN vehicle_memory :
                 vehicle_memory[vid].pos = p /\ vehicle_memory[vid].time = clock}

\* C21: the centroid of a detection is given the first lane, in the order of
\* the lane table, whose polygon holds it, a point on the edge of a polygon
\* being held by it; a centroid that no polygon holds is given no lane; and
\* no centroid is given two lanes: the pass on one detection leaves exactly
\* one vehicle at that centroid, in that lane, and marks that lane alone.
C21_FirstLaneHolding ==
    [][ (op' = "step" /\ Len(req'.boxes) = 1) =>
           LET p == Centroid(req'.boxes[1])
               now == clock
           IN IF Holders(p) = {}
              THEN /\ vehicle_id_counter' = vehicle_id_counter
                   /\ \A vid \in DOMAIN vehicle_memory' : vehicle_memory'[vid].time < now
                         \/ vehicle_memory'[vid] = vehicle_memory[vid]
                   /\ \A l \in DOMAIN lanes : lanes'[l].last_seen = lanes[l].last_seen
              ELSE LET first == raw_lanes[CHOOSE i \in Holders(p) :
                                             \A j \in Holders(p) : i <= j].id
                       seen == {vid \in DOMAIN vehicle_memory' :
                                   vehicle_memory'[vid].pos = p
                                   /\ vehicle_memory'[vid].time = now}
                   IN /\ Cardinality(seen) = 1
                      /\ \A vid \in seen : vehicle_memory'[vid].lane = first
                      /\ lanes'[first].last_seen = now /\ lanes'[first].occupied
                      /\ \A l \in DOMAIN lanes \ {first} :
                            lanes'[l].last_seen = lanes[l].last_seen
                      /\ lanes'[first].count >= 1 ]_vars

\* a pass has put a car that two polygons hold, one of them on its edge, into
\* the lane that comes first in a table that lists lane_2 before lane_1
C21_Witness ==
    /\ op = "step"
    /\ req.boxes = <<Box("car", 100, 50)>>
    /\ raw_lanes = LanesOverlapRev
    /\ \E vid \in SeenAt(<<100, 50>>) : vehicle_memory[vid].lane = "lane_2"


-----------------------------------------------------------------------------
(* C22: a write to the sink or to the serial port that fails *)

\* what the pass on the detections boxes, started now and ended at t, leaves
\* and writes when every write returns
PassAllWritten(boxes, t) ==
    LET vm0 == cleanup_old_vehicles(vehicle_memory, clock, STALE_TIMEOUT)
        st == IF program = "app"
              THEN TrackFrame([vm |-> vm0, next |-> vehicle_id_counter,
                               lanes |-> ResetLanes(lanes, clock)], boxes, clock)
              ELSE TrackFrameFinal([vm |-> vm0, next |-> vehicle_id_counter,
                                    lanes |-> ResetLanesFinal(lanes, clock)], boxes, clock)
        lane_counts == CountLanes(st.vm, st.lanes, clock)
        counted == [l \in DOMAIN st.lanes |-> [st.lanes[l] EXCEPT !.count = lane_counts[l]]]
        r == IF program = "app" THEN update_traffic_lights(Ctl, counted, lane_counts, t)
             ELSE update_traffic_lights_final(Ctl, counted, lane_counts, t, FALSE)
        m == save_to_mongodb(last_mongo_log, mongo_sink, r.lanes, t, 0)
    IN [vm |-> st.vm, next |-> st.next, lanes |-> r.lanes, ctl |-> r.ctl,
        last |-> IF program = "app" THEN m.last ELSE last_mongo_log,
        wrote |-> IF program = "app" THEN m.wrote ELSE r.sent]

\* a write of the sequence raised
Failed(wrote) == \E i \in 1..Len(wrote) : ~wrote[i].ok

-----------------------------------------------------------------------------
(* C23: what a lane of another intersection hands onward *)

\* the routes <<intersection, lane, target intersection, target lane>> of
\* the configuration whose two ends are lanes of the count table
KnownRoutes ==
    {<<RoutesOf(intersections)[k][1], RoutesOf(intersections)[k][2],
       _parse_target_lane(RoutesOf(intersections)[k][3])[1],
       _parse_target_lane(RoutesOf(intersections)[k][3])[2]>> :
          k \in {j \in 1..Len(RoutesOf(intersections)) :
                    LET r == RoutesOf(intersections)[j]
                        tgt == _parse_target_lane(r[3])
                    IN /\ r[1] \in DOMAIN simulation_counts
                       /\ r[2] \in DOMAIN simulation_counts[r[1]]
                       /\ tgt[1] \in DOMAIN simulation_counts
                       /\ tgt[2] \in DOMAIN simulation_counts[tgt[1]]}}

\* the routes that leave a lane of an intersection other than the mirror for
\* a lane that no other route enters and that no route leaves
OnwardRoutes ==
    {r \in KnownRoutes :
        /\ r[1] # SIM_MIRROR_INTERSECTION
        /\ \A q \in KnownRoutes :
              /\ (q[3] = r[3] /\ q[4] = r[4]) => q = r
              /\ ~(q[1] = r[3] /\ q[2] = r[4])}

\* C23: in a firing tick the amount that a routed lane of an intersection
\* other than the mirror hands on is the handoff amount of the count that the
\* lane held before the tick, so the lane at the end of such a route, which
\* nothing else enters or leaves, holds that amount after the tick.
C23_OnwardFromPriorCount ==
    [][ (TickFired /\ op' = "simulation_status") =>
           \A r \in OnwardRoutes :
              simulation_counts'[r[3]][r[4]] = HandoffFormula(simulation_counts[r[1]][r[2]])
      ]_vars


-----------------------------------------------------------------------------
(* C24: the mirror intersection follows the live counts *)

\* the lanes of the mirror intersection that are lanes of the lane table
MirroredLanes ==
    IF SIM_MIRROR_INTERSECTION \in DOMAIN simulation_counts
    THEN DOMAIN simulation_counts[SIM_MIRROR_INTERSECTION] \cap DOMAIN lanes
    ELSE {}

\* all lanes of the mirror intersection
MirrorLanes ==
    IF SIM_MIRROR_INTERSECTION \in DOMAIN simulation_counts
    THEN DOMAIN simulation_counts[SIM_MIRROR_INTERSECTION]
    ELSE {}

\* the counts sc with held[l] in the place of the count of lane l of the
\* mirror intersection, for the lanes l that held names
WithMirrorHolding(sc, held) ==
    [i \in DOMAIN sc |-> [l \in DOMAIN sc[i] |->
        IF i = SIM_MIRROR_INTERSECTION /\ l \in DOMAIN held THEN held[l] ELSE sc[i][l]]]

\* counts that a lane of the mirror intersection may have held
HeldCounts == {0, 7}

\* C24 as stated: a firing tick puts the live count of the lane of the same
\* id in the place of the count of every lane of the mirror intersection
\* before it computes the transfers, so the counts after the tick are the
\* same whatever the lanes of the mirror intersection held before it.
C24_MirrorOverwritten ==
    [][ TickFired =>
           \A held \in [MirrorLanes -> HeldCounts] :
              simulation_counts' =
                 tick_simulation(WithMirrorHolding(BeforeTick, held),
                                 last_simulation_tick, lanes, clock).counts ]_vars

\* C24 amended: a firing tick does so for every lane of the mirror
\* intersection that is a lane of the live lane table: the counts after the
\* tick are the same whatever those lanes held before it, and with no route
\* into such a lane it holds its live count less the amount it hands on.
C24_LiveMirrorOverwritten ==
    [][ TickFired =>
           /\ \A held \in [MirroredLanes -> HeldCounts] :
                 simulation_counts' =
                    tick_simulation(WithMirrorHolding(BeforeTick, held),
                                    last_simulation_tick, lanes, clock).counts
           /\ intersections = NetA =>
                 simulation_counts'["intersection_1"]["lane_1"] =
                    lanes["lane_1"].count - HandoffFormula(lanes["lane_1"].count) ]_vars

\* an override has written 3 into lane_1 of the mirror intersection, the tick
\* of the same call has fired, and lane_1 holds what is left of its live count
C24_Witness ==
    /\ op = "simulation_update" /\ resp = 200
    /\ req = Single("intersection_1", "lane_1", JInt(3))
    /\ last_simulation_tick = clock
    /\ lanes["lane_1"].count = 1
    /\ simulation_counts["intersection_1"]["lane_1"] =
          lanes["lane_1"].count - HandoffFormula(lanes["lane_1"].count)


-----------------------------------------------------------------------------
(* C25: the lanes of the other intersections hold what the tick hands them *)

\* the lanes <<intersection, lane>> of the intersections other than the mirror
OtherLanes ==
    UNION {{<<i, l>> : l \in DOMAIN simulation_counts[i]} :
              i \in DOMAIN simulation_counts \ {SIM_MIRROR_INTERSECTION}}

\* the amount that the tick on the counts sc moves along the route r: the
\* handoff amount of what the mirror copy and the reset leave in its source
AmountAlong(sc, r) == HandoffFormula(AfterReset(sc)[r[1]][r[2]])

\* the sum of the amounts that the tick on the counts sc moves into lane l
\* of intersection i
InboundSum(sc, i, l) ==
    LET into == {r \in KnownRoutes : r[3] = i /\ r[4] = l}
    IN SumOver([r \in into |-> AmountAlong(sc, r)], into)

\* the counts sc with n in every lane of the intersections other than the mirror
WithOthersHolding(sc, n) ==
    [i \in DOMAIN sc |-> [l \in DOMAIN sc[i] |->
        IF i = SIM_MIRROR_INTERSECTION THEN sc[i][l] ELSE n]]

\* C25: after a firing tick every lane of every intersection other than the
\* mirror holds the sum of the amounts that the tick moved into it, zero
\* when it moved none, and the counts after the tick are the same whatever
\* those lanes held before it, a count written by an override included.
C25_OthersHoldInbound ==
    [][ TickFired =>
           /\ \A x \in OtherLanes :
                 simulation_counts'[x[1]][x[2]] = InboundSum(BeforeTick, x[1], x[2])
           /\ \A n \in HeldCounts :
                 simulation_counts' =
                    tick_simulation(WithOthersHolding(BeforeTick, n),
                                    last_simulation_tick, lanes, clock).counts ]_vars

\* an override has written 5 into lane_a, the tick of the same call has
\* fired, and lane_a holds the one vehicle that lane_1 handed to it
C25_Witness ==
    /\ op = "simulation_update" /\ resp = 200
    /\ req = Single("intersection_2", "lane_a", JInt(5))
    /\ intersections = NetA
    /\ last_simulation_tick = clock
    /\ lanes["lane_1"].count = 1
    /\ simulation_counts["intersection_2"]["lane_a"] = 1


-----------------------------------------------------------------------------
(* C26: the transfers of a tick are computed from one snapshot *)

\* the sequence s read from its position k on and around
Rotated(s, k) == [i \in 1..Len(s) |-> s[((i + k - 2) % Len(s)) + 1]]

\* the sequence s read backwards
Reversed(s) == [i \in 1..Len(s) |-> s[Len(s) + 1 - i]]

\* orders in which the routes can be visited: every rotation of the
\* configured order and of its reverse
RouteOrders(routes) ==
    {Rotated(routes, k) : k \in 1..Len(routes)}
    \cup {Rotated(Reversed(routes), k) : k \in 1..Len(routes)}

\* the counts on which the transfers of the tick are computed: the live
\* counts in the mirror intersection, zero elsewhere
Snapshot == ResetOthers(MirrorLive(BeforeTick, lanes))

\* C26: a firing tick computes the amounts of all its transfers from the
\* counts as they are before any transfer is applied, so the counts after the
\* tick are those that the routes visited in any order give; a lane that a
\* route enters and another leaves (lane_9 of NetA) hands on the amount of
\* its count in the snapshot, what enters it in the same tick not included.
C26_SnapshotThenApply ==
    [][ TickFired =>
           \E snap \in {Snapshot} :
              /\ \A order \in RouteOrders(RoutesOf(intersections)) :
                    simulation_counts' = ApplyTransfers(snap, ComputeTransfers(order, snap))
              /\ intersections = NetA =>
                    /\ simulation_counts'["intersection_2"]["lane_a"] =
                          HandoffFormula(snap["intersection_1"]["lane_1"])
                          + HandoffFormula(snap["intersection_1"]["lane_9"])
                    /\ simulation_counts'["intersection_1"]["lane_9"] =
                          snap["intersection_1"]["lane_9"]
                          - HandoffFormula(snap["intersection_1"]["lane_9"])
                          + HandoffFormula(snap["intersection_1"]["lane_2"]) ]_vars

\* a firing tick has moved a vehicle from lane_2 into lane_9, which held
\* none and handed none on to lane_a
C26_Witness ==
    /\ intersections = NetA
    /\ op = "simulation_status"
    /\ last_simulation_tick = clock
    /\ lanes["lane_2"].count = 2 /\ lanes["lane_1"].count = 1
    /\ simulation_counts["intersection_1"]["lane_9"] = 1
    /\ simulation_counts["intersection_2"]["lane_a"] = 1


-----------------------------------------------------------------------------
(* C27: the switch candidate *)

\* position in the lane order of the first lane that holds the largest
\* count of the table c
FirstMax(c) ==
    CHOOSE i \in 1..Len(lane_order) :
        /\ \A j \in 1..Len(lane_order) : c[lane_order[j]] <= c[lane_order[i]]
        /\ \A j \in 1..(i - 1) : c[lane_order[j]] < c[lane_order[i]]

\* count tables over the lanes, with ties
TieCounts == {0, 3}
CountTables == [DOMAIN lanes -> TieCounts]

\* the counts that the pass which has just ended left in the lane table
CountsLeft == [l \in DOMAIN lanes |-> lanes[l].count]

\* C27: the candidate for a switch is the lane that holds the largest count
\* of all lanes and, where several hold it, the first of them in the order
\* of the lane table, so the same counts always give the same candidate; the
\* lane that a pass makes pending is that lane.
C27_FirstMaxCandidate ==
    /\ [](\A c \in CountTables : BestLane(c) = lane_order[FirstMax(c)])
    /\ [][ (op' = "step" /\ light_state = "GREEN" /\ light_state' = "YELLOW") =>
              pending_lane_index' = <<FirstMax(CountsLeft') - 1>> ]_vars

\* a pass of src/app.py has made pending the first of two lanes that hold
\* the largest count
C27_Witness ==
    /\ program = "app"
    /\ op = "step" /\ light_state = "YELLOW" /\ last_switch_time = clock
    /\ \E i, j \in 1..Len(lane_order) :
          /\ i < j
          /\ pending_lane_index = <<i - 1>>
          /\ CountsLeft[lane_order[i]] = CountsLeft[lane_order[j]]
          /\ \A k \in 1..Len(lane_order) : CountsLeft[lane_order[k]] <= CountsLeft[lane_order[i]]


-----------------------------------------------------------------------------
(* C28: a lane change back to a lane held of late *)

\* the registry after the purge at the head of a pass
Purged == cleanup_old_vehicles(vehicle_memory, clock, STALE_TIMEOUT)

\* the other vehicles seen of late that are held in lane l after a pass
OthersCounted(vid, l) ==
    Cardinality({k \in DOMAIN vehicle_memory' \ {vid} :
                    /\ vehicle_memory'[k].lane = l
                    /\ clock - vehicle_memory'[k].time <= EMPTY_TIMEOUT})

\* C28: when a detection is matched to a vehicle whose lane is another than
\* the lane of the detection, the vehicle takes the new lane only if that
\* lane is not among the last three lanes it held; otherwise it keeps its
\* lane and is counted there, not in the lane of the detection.
C28_NoWayBack ==
    [][ (op' = "step" /\ Len(req'.boxes) = 1) =>
           \E c \in {Centroid(req'.boxes[1])} :
           \E cur \in {point_in_lane(c[1], c[2])}, m \in {MatchVehicle(Purged, c)} :
              (cur # "None" /\ m # <<>> /\ cur # vehicle_memory[m[1]].lane) =>
                 \E vid \in {m[1]}, prev \in {vehicle_memory[m[1]].lane} :
                    IF \A i \in 1..Len(visited[vid]) : visited[vid][i] # cur
                    THEN vehicle_memory'[vid].lane = cur
                    ELSE /\ vehicle_memory'[vid].lane = prev
                         /\ lanes'[prev].count = OthersCounted(vid, prev) + 1
                         /\ lanes'[cur].count = OthersCounted(vid, cur) ]_vars


-----------------------------------------------------------------------------
(* C29: the occupied flag of a lane *)

\* a detection of the pass that has just ended is a vehicle whose centroid
\* lies in lane l
SightedIn(l) ==
    \E i \in 1..Len(req'.boxes) :
       /\ req'.boxes[i].cls \in (IF program = "app" THEN VEHICLE_CLASSES
                                 ELSE {"car", "truck", "bus"})
       /\ \E c \in {Centroid(req'.boxes[i])} : point_in_lane(c[1], c[2]) = l

-----------------------------------------------------------------------------
(* C30: the pending lane *)

\* C30: in every state a lane is pending exactly when the phase is YELLOW,
\* and the active lane changes only in the step that ends a yellow phase,
\* where it becomes the lane that was pending.
C30_PendingWhileYellow ==
    /\ [](pending_lane_index # <<>> <=> light_state = "YELLOW")
    /\ [][ current_lane_index' # current_lane_index =>
              /\ light_state = "YELLOW" /\ light_state' = "GREEN"
              /\ pending_lane_index = <<current_lane_index'>>
              /\ pending_lane_index' = <<>> ]_vars

\* a step has ended a yellow phase: the lane that was pending is active and
\* no lane is pending
C30_Witness ==
    /\ op = "step" /\ light_state = "GREEN" /\ last_switch_time = clock
    /\ current_lane_index = 1 /\ pending_lane_index = <<>>
    /\ committed[lane_order[2]].signal = "GREEN"


-----------------------------------------------------------------------------
(* C31: the simulation and the live pipeline *)

\* what the live pipeline keeps: the lane table, the registry of vehicles and
\* the controller
LiveVars == <<lanes, vehicle_memory, vehicle_id_counter, ctlVars>>

SimulationOps == {"simulation_status", "simulation_update"}

\* C31: the simulated counts and the time of the last tick change only in a
\* simulation-status read or an override; a processing pass leaves both as
\* they are; a simulation-status read or an override leaves the lane table,
\* the registry of vehicles and the controller's phase, active lane, pending
\* lane and time of the last switch as they are.
C31_SimulationApart ==
    [][ /\ simVars' # simVars => op' \in SimulationOps
        /\ op' = "step" => UNCHANGED simVars
        /\ op' \in SimulationOps => UNCHANGED LiveVars ]_vars

\* a simulation-status read has run a tick that copied live counts into the
\* mirror intersection while vehicles were tracked
C31_Witness ==
    /\ op = "simulation_status"
    /\ last_simulation_tick = clock
    /\ vehicle_memory # <<>>
    /\ lanes["lane_1"].count > 0
    /\ simulation_counts["intersection_1"]["lane_1"] + simulation_counts["intersection_2"]["lane_a"]
          = lanes["lane_1"].count


-----------------------------------------------------------------------------
(* C32: the lock and the external collaborators *)

\* the pass that holds the lock has purged the registry and reset the lanes
\* and has called the detection model, which has not returned yet
\* (src/app.py, lines 377-387)
InferenceUnderWay == lock = "generate_frames"

\* C32: in no state is the lock held while the detection model, the database
\* or the hardware is being waited for; no time passes while the lock is
\* held.
C32_NoCollaboratorUnderLock ==
    /\ [](lock # "free" => ~InferenceUnderWay)
    /\ [][ (lock # "free" /\ lock' # "free") => clock' = clock ]_vars


-----------------------------------------------------------------------------
(* C33: vehicle identifiers *)

\* C33: every id in the registry is below the id counter; the counter never
\* goes down; the ids that a pass adds to the registry are exactly the values
\* the counter passed through in that pass, so each is larger than every id
\* given before, whether its vehicle is still in the registry or was purged;
\* nothing but a pass adds a vehicle or moves the counter.
C33_IdsNeverReused ==
    /\ [](\A vid \in DOMAIN vehicle_memory : vid \in 0..(vehicle_id_counter - 1))
    /\ [][ /\ vehicle_id_counter' >= vehicle_id_counter
           /\ DOMAIN vehicle_memory' \ DOMAIN vehicle_memory
                 = vehicle_id_counter..(vehicle_id_counter' - 1)
           /\ vehicle_id_counter' # vehicle_id_counter => op' = "step" ]_vars

\* a pass has purged vehicle 0 and given the vehicle it then created the id 1
C33_Witness ==
    /\ op = "step"
    /\ DOMAIN vehicle_memory = {1}
    /\ vehicle_id_counter = 2
    /\ vehicle_memory[1].time = clock


-----------------------------------------------------------------------------
(* C34: the direction of a matched vehicle *)

\* the direction that the deltas dx and dy give; none stands for the word the
\* program uses for a vehicle that did not move
DirectionOf(dx, dy, none) ==
    IF Abs(dx) < 8 /\ Abs(dy) < 8 THEN none
    ELSE IF Abs(dx) > Abs(dy) THEN (IF dx > 0 THEN "RIGHT" ELSE "LEFT")
    ELSE IF dy > 0 THEN "DOWN"
    ELSE "UP"

\* C34: a vehicle matched by a detection gets its direction from the deltas
\* of the two centroids: both below 8 in absolute value, it did not move ("" in
\* src/app.py, "STATIONARY" in src/intersection_final.py); otherwise a
\* horizontal delta strictly larger in absolute value gives RIGHT when
\* positive and LEFT when negative, and in every other case, the tie
\* included, the vertical delta gives DOWN when positive and UP otherwise.
C34_DirectionFromDeltas ==
    [][ (op' = "step" /\ Len(req'.boxes) = 1) =>
           \E c \in {Centroid(req'.boxes[1])} :
           \E m \in {MatchVehicle(vehicle_memory, c)} :
              m # <<>> =>
                 \E prev \in {vehicle_memory[m[1]].pos} :
                    /\ vehicle_memory'[m[1]].pos = c
                    /\ vehicle_memory'[m[1]].direction =
                          DirectionOf(c[1] - prev[1], c[2] - prev[2],
                                      IF program = "app" THEN "" ELSE "STATIONARY") ]_vars

\* a matched vehicle has come to the centroid (48, 48) moving down, as it
\* does from (40, 40), where both deltas are 8
C34_Witness ==
    /\ op = "step"
    /\ \E vid \in DOMAIN vehicle_memory :
          /\ vehicle_memory[vid].pos = <<48, 48>>
          /\ vehicle_memory[vid].direction = "DOWN"


-----------------------------------------------------------------------------
(* C35: the lanes that turn green after a yellow phase *)

\* the lanes that show the phase while lane l is active: l and, where one is
\* configured and in the lane table, its partner
GroupOf(l) == {l, PartnerOf(l)} \cap DOMAIN lanes

\* C35: the step that ends a yellow phase makes another group of lanes green
\* than the group that was green before the yellow phase (the active lane
\* does not change during the yellow phase).
C35_AnotherGroupAfterYellow ==
    [][ (light_state = "YELLOW" /\ light_state' = "GREEN") =>
           GroupOf(ActiveLane') # GroupOf(ActiveLane) ]_vars


-----------------------------------------------------------------------------
(* C36: one vehicle for each detection of a frame *)

\* the detections of a frame that the tracker accepts: a vehicle class and a
\* centroid inside a lane
Accepted(boxes) ==
    {i \in 1..Len(boxes) :
        /\ boxes[i].cls \in (IF program = "app" THEN VEHICLE_CLASSES
                             ELSE {"car", "truck", "bus"})
        /\ \E c \in {Centroid(boxes[i])} : point_in_lane(c[1], c[2]) # "None"}

\* C36: no vehicle is matched by two detections of one frame, so a pass that
\* accepts k detections leaves at least k vehicles updated at the time of
\* the pass.
C36_OneVehiclePerDetection ==
    [][ op' = "step" =>
           Cardinality({vid \in DOMAIN vehicle_memory' : vehicle_memory'[vid].time = clock})
              >= Cardinality(Accepted(req'.boxes)) ]_vars


-----------------------------------------------------------------------------
(* C37: the total of the simulated counts after a tick *)

\* the sum of the live counts that a tick copies into the mirror intersection
LiveCopied == SumOver([l \in MirroredLanes |-> lanes[l].count], MirroredLanes)

\* the sum of what the lanes of the mirror intersection that are no lanes of
\* the lane table hold when the tick is invoked
MirrorUncopied ==
    SumOver([l \in MirrorLanes \ MirroredLanes |-> BeforeTick[SIM_MIRROR_INTERSECTION][l]],
            MirrorLanes \ MirroredLanes)

\* C37 as stated: after every firing tick the sum of all simulated counts is
\* the sum of the live lane counts that the tick copied into the mirror
\* intersection.
C37_TotalIsLive ==
    [][ TickFired => SimTotal(simulation_counts') = LiveCopied ]_vars

\* C37 amended: after every firing tick the sum of all simulated counts is
\* the sum of the live lane counts that the tick copied into the mirror
\* intersection and of the counts that the lanes of the mirror intersection
\* without a live lane of the same id held when the tick was invoked; the
\* counts of all other intersections before the tick have no part in it.
C37_TotalIsLiveAndUncopied ==
    [][ TickFired => SimTotal(simulation_counts') = LiveCopied + MirrorUncopied ]_vars

\* a simulation-status read has fired a tick with vehicles in the live lanes
\* and a count in lane_9 of the mirror intersection, which is no live lane:
\* the total is larger than the live counts
C37_Witness ==
    /\ op = "simulation_status" /\ intersections = NetA /\ last_simulation_tick = clock
    /\ simulation_counts["intersection_1"]["lane_9"] > 0
    /\ LiveCopied > 0
    /\ SimTotal(simulation_counts) > LiveCopied


-----------------------------------------------------------------------------
(* C38: the lane that keeps the lead becomes the active lane *)

\* after a pass lane l holds the largest count, and it is the active lane or
\* leads the active lane by COUNT_SWITCH_DELTA or more
KeepsLead(l) ==
    /\ \A k \in DOMAIN lanes : lanes[k].count <= lanes[l].count
    /\ l = ActiveLane \/ lanes[l].count - lanes[ActiveLane].count >= COUNT_SWITCH_DELTA

\* C38: with passes that follow one another while time goes on, and lane_2,
\* not active at the start, holding the largest count after every pass with
\* a lead of COUNT_SWITCH_DELTA or more over the active lane, lane_2
\* eventually is the active lane and shows GREEN.
C38_LeaderBecomesActive ==
    /\ ActiveLane = "lane_1"
    /\ [](op = "step" => KeepsLead("lane_2"))
    /\ <>(ActiveLane = "lane_2" /\ light_state = "GREEN" /\ lanes["lane_2"].signal = "GREEN")

\* lane_2 has become the active lane at the end of a yellow phase, with a
\* lead of just COUNT_SWITCH_DELTA over the lane that was active
C38_Witness ==
    /\ op = "step" /\ ActiveLane = "lane_2" /\ light_state = "GREEN"
    /\ lanes["lane_2"].signal = "GREEN"
    /\ lanes["lane_2"].count = COUNT_SWITCH_DELTA /\ lanes["lane_1"].count = 0
    /\ last_switch_time > Epoch

-----------------------------------------------------------------------------
(* C39: a lane with a count is occupied *)

\* C39: after every processing step of the web application, every lane
\* whose count is greater than zero has its occupied flag set.
C39_CountedIsOccupied ==
    (op = "step" /\ program = "app") =>
        \A l \in DOMAIN lanes : lanes[l].count > 0 => lanes[l].occupied

-----------------------------------------------------------------------------
(* C40: the lock is released on every way out *)

\* the entry points that have returned or raised
ExitOps == {"step", "step_error", "lane_status", "simulation_status", "simulation_update"}

====
